---------------------------- MODULE Spec2Model ----------------------------
(***************************************************************************)
(* Model of the metrics evaluation pipeline.                               *)
(*                                                                         *)
(* Spec: one call of get_pr_review_stats with _fetch_prs_with_graphql      *)
(* (src/metrics/data_fetcher/github.py) followed by one call of            *)
(* ReviewednessMetric.compute (src/metrics/impl/reviewedness.py), or a     *)
(* call of compute on a context given from outside.                        *)
(* SpecRepo: one call of get_github_repo_data (github.py).                 *)
(* SpecAgg: one call of fetch_comprehensive_metrics_data                   *)
(* (src/metrics/data_fetcher/aggregator.py).                               *)
(* SpecScore: one call of run_metrics or of aggregate over the default     *)
(* plan (src/metrics/ops_plan.py).                                         *)
(* SpecCli: the output loop of main with validate_ndjson                   *)
(* (src/cli/main.py), or a call of validate_ndjson of src/cli/validate.py. *)
(* SpecApi: the request handlers of the registry API (src/api/app.py)      *)
(* over the in-memory registry, one request at a time.                     *)
(*                                                                         *)
(* The upstream services are the environment: every response of            *)
(* safe_request and every record a helper hands back is chosen from a      *)
(* bounded set of shapes.                                                  *)
(***************************************************************************)
EXTENDS Integers, Sequences, FiniteSets, TLC

(***************************************************************************)
(* Bounds of the model.                                                    *)
(***************************************************************************)
\* most GraphQL page requests followed in one fetch
MaxRequests == 3
\* most items ("nodes") the service puts in one page
PageMax == 2
\* largest line count of a context handed to the metric from outside
MaxLines == 4

\* max_prs, github.py:189, the safety ceiling on processed items: 6000 in the
\* code, scaled down so that a fetch of MaxRequests pages can reach it
max_prs == 3

(***************************************************************************)
(* JSON values.  A JSON object is a function whose DOMAIN is the set of    *)
(* keys present; JSON null (Python None) is Null.                          *)
(***************************************************************************)
Null == -1

\* dict.get(key, default)
Get(d, key, default) == IF key \in DOMAIN d THEN d[key] ELSE default

\* pr.get(key, 0), github.py:237-239: a missing sub-field counts as 0
PrGetNoDefault(pr, key) == Get(pr, key, Null)
PrGet(pr, key) == Get(pr, key, 0)

(***************************************************************************)
(* The served PR items.  "commits" and "reviews" hold the totalCount of    *)
(* the nested object, or Null when the nested object itself is null.       *)
(* GoodItems: a reviewed item, an unreviewed one, one without sub-fields.  *)
(* BadItems: one whose commits object is null, one whose additions are.    *)
(***************************************************************************)
GoodItems ==
    { [number |-> 1, additions |-> 1, commits |-> 1, reviews |-> 1],
      [number |-> 1, additions |-> 2, commits |-> 2, reviews |-> 0],
      [number |-> 1] }

BadItems ==
    { [number |-> 1, additions |-> 1, commits |-> Null, reviews |-> 1],
      [number |-> 1, additions |-> Null, commits |-> 1, reviews |-> 1] }

\* the sequences over S of length at most n
RECURSIVE SeqsUpTo(_, _)
SeqsUpTo(S, n) ==
    IF n = 0 THEN { <<>> }
    ELSE LET shorter == SeqsUpTo(S, n - 1)
         IN  shorter \cup { Append(s, x) : s \in shorter, x \in S }

\* the node lists served: at most PageMax items, a bad one only in the last
\* place (the items after the one that raises are never read)
NodeLists ==
    SeqsUpTo(GoodItems, PageMax)
    \cup { Append(s, x) : s \in SeqsUpTo(GoodItems, PageMax - 1), x \in BadItems }

\* the node lists of the pages served with a key missing
ShortNodeLists == SeqsUpTo(GoodItems \cup BadItems, 1)

\* the endCursor values the service hands out
Cursors == {Null, 1}

\* the totalCount values the service reports
TotalCounts == {0, 2}

(***************************************************************************)
(* The responses of safe_request to one GraphQL page request.              *)
(*   none      safe_request returned None                                  *)
(*   not_ok    a response whose ok is false                                *)
(*   bad_json  response.json() raises ValueError                           *)
(*   errors    the body holds an "errors" envelope                         *)
(*   no_data   the body has no "data" key                                  *)
(*   null_repo data.repository is null                                     *)
(*   no_prs    data.repository has no "pullRequests" key                   *)
(*   page      data.repository.pullRequests is an object; its keys         *)
(*             totalCount, nodes and pageInfo (flattened to hasNextPage    *)
(*             and endCursor) may each be missing                          *)
(***************************************************************************)
FailureKinds ==
    {"none", "not_ok", "bad_json", "errors", "no_data", "null_repo", "no_prs"}

PageInfos ==
    { [hasNextPage |-> FALSE, endCursor |-> Null] }
    \cup { [hasNextPage |-> TRUE, endCursor |-> c] : c \in Cursors }

Responses ==
    { [kind |-> k] : k \in FailureKinds }
    \cup { [kind |-> "page", totalCount |-> t, nodes |-> n,
            hasNextPage |-> p.hasNextPage, endCursor |-> p.endCursor] :
              t \in TotalCounts, n \in NodeLists, p \in PageInfos }
    \cup { [kind |-> "page", nodes |-> n,
            hasNextPage |-> p.hasNextPage, endCursor |-> p.endCursor] :
              n \in ShortNodeLists, p \in PageInfos }
    \cup { [kind |-> "page", totalCount |-> t, nodes |-> n] :
              t \in TotalCounts, n \in ShortNodeLists }
    \cup { [kind |-> "page", totalCount |-> t] : t \in TotalCounts }


(***************************************************************************)
(* The response of safe_request to the commit-listing request             *)
(* (commits?per_page=1): none (None, or a falsy response), or a response   *)
(* whose Link header is missing (no_link), has no "last" relation          *)
(* (no_last), does not match the page pattern (no_match), or names the     *)
(* last page (last).                                                       *)
(***************************************************************************)
CommitResponses ==
    { [kind |-> k, page |-> 0] : k \in {"none", "no_link", "no_last", "no_match"} }
    \cup { [kind |-> "last", page |-> 50] }

VARIABLES
    pc,             \* "start", "loop", "returned", "scored"
    stats,          \* stats of get_pr_review_stats (six counters)
    prstats,        \* stats of _fetch_prs_with_graphql (five counters)
    cursor,         \* cursor of _fetch_prs_with_graphql
    has_next_page,  \* has_next_page of _fetch_prs_with_graphql
    prs_processed,  \* prs_processed of _fetch_prs_with_graphql
    ctl,            \* how the last pass through the loop body ended
    result,         \* what get_pr_review_stats returned; NoResult before
    reqCursors,     \* history: the cursor of every page request issued
    seen,           \* history: what the service has served so far
    context,        \* the context handed to ReviewednessMetric.compute
    metric          \* the MetricResult of ReviewednessMetric.compute

\* fetch_comprehensive_metrics_data (aggregator.py)
VARIABLES
    urls,           \* its arguments code_url, dataset_url, model_url
    apc,            \* "idle", "avail", "model", "dataset", "github", "fill",
                    \* "returned"
    data,           \* data, the context under assembly
    hf_model_data,  \* hf_model_data, kept for the repository section
    ctxout,         \* what the call returned; NoResult before
    agg             \* history: what the helpers handed back during the call

\* run_metrics and aggregate over the default plan (ops_plan.py)
VARIABLES
    spc,            \* "idle", "ran" (run_metrics returned), "aggregated"
                    \* (aggregate returned on results given to it)
    rctx,           \* the context handed to run_metrics
    results,        \* metric id -> value of its MetricResult
    summary         \* NetScore_weighted and NetScore_binary

\* get_github_repo_data (github.py)
VARIABLES
    rpc,            \* "idle", "repo", "contributors", "prs", "tree",
                    \* "returned"
    rdata,          \* data, the record under assembly
    rout,           \* what the call returned; NoResult before
    rseen           \* history: what the upstream calls handed back

\* the output loop of the command line (cli/main.py)
VARIABLES
    cpc,            \* "idle", "loop", "returned"; "validated" after a call
                    \* of validate_ndjson of cli/validate.py
    ndjsons,        \* the evaluated records, in input order
    printed,        \* the lines printed to stdout so far
    verdicts,       \* what the calls of validate_ndjson returned so far
    rc              \* the return code of main; Null before

\* the registry API (api/app.py)
VARIABLES
    model_registry, \* model_registry: the entries in insertion order, each
                    \* a key and the artifact stored under it
    api,            \* the last request: its inputs, the status and body
                    \* answered, the registry as it was before
    created         \* history: id -> the metadata a 201 answer to a create
                    \* held, since the last reset

fetchVars == << pc, stats, prstats, cursor, has_next_page, prs_processed, ctl,
                result, reqCursors, seen, context, metric >>

aggVars == << urls, apc, data, hf_model_data, ctxout, agg >>


scoreVars == << spc, rctx, results, summary >>

repoVars == << rpc, rdata, rout, rseen >>

cliVars == << cpc, ndjsons, printed, verdicts, rc >>

apiVars == << model_registry, api, created >>

vars == << fetchVars, aggVars, scoreVars, repoVars, cliVars, apiVars >>

\* everything but the state of the PR statistics fetch and its scoring
notFetch == << aggVars, scoreVars, repoVars, cliVars, apiVars >>

\* everything but the state of the aggregator, of the scoring, of the
\* repository fetch, of the command line
notAgg == << fetchVars, scoreVars, repoVars, cliVars, apiVars >>
notScore == << fetchVars, aggVars, repoVars, cliVars, apiVars >>
notRepo == << fetchVars, aggVars, scoreVars, cliVars, apiVars >>
notCli == << fetchVars, aggVars, scoreVars, repoVars, apiVars >>
notApi == << fetchVars, aggVars, scoreVars, repoVars, cliVars >>

\* the six counters of get_pr_review_stats, github.py:106-113
StatsInit ==
    [ total_prs |-> 0, reviewed_prs |-> 0, total_commits |-> 0,
      pr_commits |-> 0, lines_from_reviewed_prs |-> 0, total_lines_added |-> 0 ]

\* the five counters of _fetch_prs_with_graphql, github.py:153-159
PrStatsInit ==
    [ total_prs |-> 0, reviewed_prs |-> 0, pr_commits |-> 0,
      lines_from_reviewed_prs |-> 0, total_lines_added |-> 0 ]

NoResult == [ none |-> 0 ]

\* dict.update: the keys of e overwrite or extend those of d
ReplaceDict(d, e) == e
Update(d, e) ==
    [ k \in DOMAIN d \cup DOMAIN e |-> IF k \in DOMAIN e THEN e[k] ELSE d[k] ]

\* github.py:121-126: total_commits is the page of rel="last", if there is one
TotalCommits(resp) == IF resp.kind = "last" THEN resp.page ELSE 0

(***************************************************************************)
(* github.py:234-247, the body of "for pr in pr_data['nodes']" for one     *)
(* item.  acc holds stats, prs_processed and exc, the exception raised     *)
(* ("" for none).  The item is counted first; a null commits or reviews    *)
(* object raises AttributeError at 238/239 before any counter moves; null  *)
(* additions raise TypeError at 242, after pr_commits was updated.         *)
(***************************************************************************)
ProcessPrUnguarded(acc, pr) ==
    LET n         == acc.prs_processed + 1
        additions == PrGet(pr, "additions")
        commits   == PrGet(pr, "commits")
        reviews   == PrGet(pr, "reviews")
        st        == acc.stats
    IN  IF commits = Null \/ reviews = Null
        THEN [ stats |-> st, prs_processed |-> n, exc |-> "AttributeError" ]
        ELSE IF additions = Null
        THEN [ stats |-> [st EXCEPT !.pr_commits = @ + commits],
               prs_processed |-> n, exc |-> "TypeError" ]
        ELSE [ stats |->
                 [st EXCEPT !.pr_commits = @ + commits,
                            !.total_lines_added = @ + additions,
                            !.reviewed_prs = IF reviews > 0 THEN @ + 1 ELSE @,
                            !.lines_from_reviewed_prs = @ + additions],
               prs_processed |-> n, exc |-> "" ]

\* the body with total_lines_added counted for the unreviewed items only
ProcessPrSplit(acc, pr) ==
    LET n         == acc.prs_processed + 1
        additions == PrGet(pr, "additions")
        commits   == PrGet(pr, "commits")
        reviews   == PrGet(pr, "reviews")
        st        == acc.stats
    IN  IF commits = Null \/ reviews = Null
        THEN [ stats |-> st, prs_processed |-> n, exc |-> "AttributeError" ]
        ELSE IF additions = Null
        THEN [ stats |-> [st EXCEPT !.pr_commits = @ + commits],
               prs_processed |-> n, exc |-> "TypeError" ]
        ELSE [ stats |->
                 [st EXCEPT !.pr_commits = @ + commits,
                            !.total_lines_added =
                                IF reviews > 0 THEN @ ELSE @ + additions,
                            !.reviewed_prs = IF reviews > 0 THEN @ + 1 ELSE @,
                            !.lines_from_reviewed_prs =
                                IF reviews > 0 THEN @ + additions ELSE @],
               prs_processed |-> n, exc |-> "" ]

ProcessPr(acc, pr) ==
    LET n         == acc.prs_processed + 1
        additions == PrGet(pr, "additions")
        commits   == PrGet(pr, "commits")
        reviews   == PrGet(pr, "reviews")
        st        == acc.stats
    IN  IF commits = Null \/ reviews = Null
        THEN [ stats |-> st, prs_processed |-> n, exc |-> "AttributeError" ]
        ELSE IF additions = Null
        THEN [ stats |-> [st EXCEPT !.pr_commits = @ + commits],
               prs_processed |-> n, exc |-> "TypeError" ]
        ELSE [ stats |->
                 [st EXCEPT !.pr_commits = @ + commits,
                            !.total_lines_added = @ + additions,
                            !.reviewed_prs = IF reviews > 0 THEN @ + 1 ELSE @,
                            !.lines_from_reviewed_prs =
                                IF reviews > 0 THEN @ + additions ELSE @],
               prs_processed |-> n, exc |-> "" ]

\* the for loop over the nodes: stops at the first item that raises
RECURSIVE ProcessNodes(_, _)
ProcessNodes(acc, nodes) ==
    IF nodes = <<>> \/ acc.exc # "" THEN acc
    ELSE ProcessNodes(ProcessPr(acc, Head(nodes)), Tail(nodes))

(***************************************************************************)
(* github.py:192-258, one pass through the body of the while loop on the   *)
(* response r.  s holds stats, prs_processed, has_next_page and cursor;    *)
(* the result adds ctl: "next" when the end of the body was reached,       *)
(* "break" when the loop was left by a break (209-211, 216-218, 223-225,   *)
(* or KeyError/TypeError caught at 256-258), "raise" when an exception     *)
(* that the except clause at 256 does not name left the function.          *)
(***************************************************************************)
Left(s, st, n, how) ==
    [ stats |-> st, prs_processed |-> n, has_next_page |-> s.has_next_page,
      cursor |-> s.cursor, ctl |-> how ]

Iteration(s, r) ==
    IF r.kind \in {"none", "not_ok"} THEN Left(s, s.stats, s.prs_processed, "break")
    ELSE IF r.kind = "bad_json" THEN Left(s, s.stats, s.prs_processed, "raise")
    ELSE IF r.kind \in {"errors", "no_data", "null_repo", "no_prs"}
    THEN Left(s, s.stats, s.prs_processed, "break")
    ELSE IF s.stats.total_prs = 0 /\ "totalCount" \notin DOMAIN r
    THEN Left(s, s.stats, s.prs_processed, "break")
    ELSE
      LET st1 == IF s.stats.total_prs = 0
                 THEN [s.stats EXCEPT !.total_prs = r.totalCount]
                 ELSE s.stats
      IN  IF "nodes" \notin DOMAIN r
          THEN Left(s, st1, s.prs_processed, "break")
          ELSE
            LET acc == ProcessNodes([ stats |-> st1,
                                      prs_processed |-> s.prs_processed,
                                      exc |-> "" ], r.nodes)
            IN  IF acc.exc = "AttributeError"
                THEN Left(s, acc.stats, acc.prs_processed, "raise")
                ELSE IF acc.exc # "" \/ "hasNextPage" \notin DOMAIN r
                THEN Left(s, acc.stats, acc.prs_processed, "break")
                ELSE [ stats |-> acc.stats,
                       prs_processed |-> acc.prs_processed,
                       has_next_page |-> r.hasNextPage,
                       cursor |-> r.endCursor,
                       ctl |-> "next" ]

\* the condition of the while loop without the ceiling
LoopCondNoCeiling(next, processed) == next

\* github.py:191, the condition of the while loop
LoopCond(next, processed) == next /\ processed < max_prs

\* the loop goes round again when the body ended normally and 191 holds
ContinuesAfterBreak(how, next, processed) ==
    how # "raise" /\ LoopCond(next, processed)
Continues(how, next, processed) ==
    how = "next" /\ LoopCond(next, processed)

\* how the loop was left, from the end of its last pass
ExitOf(how, next) ==
    IF how # "next" THEN how
    ELSE IF ~next THEN "no_next" ELSE "ceiling"

(***************************************************************************)
(* History of the served responses, kept apart from the code's counters.   *)
(***************************************************************************)
WellFormedPr(pr) == \A k \in DOMAIN pr : pr[k] # Null

WellFormed(r) ==
    /\ r.kind = "page"
    /\ {"totalCount", "nodes", "hasNextPage", "endCursor"} \subseteq DOMAIN r
    /\ \A i \in 1..Len(r.nodes) : WellFormedPr(r.nodes[i])

Reviewed(pr) == "reviews" \in DOMAIN pr /\ pr.reviews > 0

RECURSIVE SumOf(_, _)
SumOf(nodes, key) ==
    IF nodes = <<>> THEN 0
    ELSE (IF key \in DOMAIN Head(nodes) THEN Head(nodes)[key] ELSE 0)
         + SumOf(Tail(nodes), key)

Gappy(pr) == ~ ({"additions", "commits", "reviews"} \subseteq DOMAIN pr)

SeenInit ==
    [ responses |-> 0, bad |-> FALSE, anyOk |-> FALSE,
      items |-> 0, spread |-> FALSE, adds |-> 0, commits |-> 0, reviewed |-> 0, rlines |-> 0,
      lasts |-> 0, lastNext |-> TRUE, gappy |-> FALSE, afterGappy |-> FALSE,
      firstTotal |-> Null, given |-> <<>> ]

Observe(h, r) ==
    LET wf == WellFormed(r)
        rv == IF wf THEN SelectSeq(r.nodes, Reviewed) ELSE <<>>
        gp == wf /\ \E i \in 1..Len(r.nodes) : Gappy(r.nodes[i])
    IN  [ responses |-> h.responses + 1,
          bad       |-> h.bad \/ ~wf,
          anyOk     |-> h.anyOk \/ r.kind \notin {"none", "not_ok"},
          items     |-> h.items + (IF wf THEN Len(r.nodes) ELSE 0),
          spread    |-> h.spread \/ (h.items > 0 /\ wf /\ r.nodes # <<>>),
          adds      |-> h.adds + (IF wf THEN SumOf(r.nodes, "additions") ELSE 0),
          commits   |-> h.commits + (IF wf THEN SumOf(r.nodes, "commits") ELSE 0),
          reviewed  |-> h.reviewed + Len(rv),
          rlines    |-> h.rlines + SumOf(rv, "additions"),
          lasts     |-> h.lasts + (IF wf /\ ~r.hasNextPage THEN 1 ELSE 0),
          lastNext  |-> IF wf THEN r.hasNextPage ELSE h.lastNext,
          gappy     |-> h.gappy \/ gp,
          afterGappy |-> h.afterGappy \/ (h.gappy /\ wf /\ r.nodes # <<>>),
          firstTotal |-> IF h.responses = 0
                         THEN Get(r, "totalCount", Null)
                         ELSE h.firstTotal,
          given     |-> Append(h.given, Get(r, "endCursor", Null)) ]

(***************************************************************************)
(* ReviewednessMetric.compute, reviewedness.py:23-73.  A value is the      *)
(* exact quotient num/den of the true division at line 52 (den > 0); the   *)
(* sentinel -1.0 is -1/1.  For line counts below 2^53 the float quotient   *)
(* compares with 0.5 exactly as the rational does.                         *)
(***************************************************************************)
Sentinel == [ num |-> 0 - 1, den |-> 1 ]

\* value >= 0.5, reviewedness.py:70
GtHalf(v) == 2 * v.num > v.den
GeHalf(v) == 2 * v.num >= v.den

\* an empty dict
EmptyDict == [ k \in {} |-> 0 ]

\* reviewedness.py:51-55
FractionOfPrs(reviewed_lines, total_lines, pr_stats) ==
    IF Get(pr_stats, "total_prs", 0) > 0
    THEN [ num |-> Get(pr_stats, "reviewed_prs", 0),
           den |-> Get(pr_stats, "total_prs", 0) ]
    ELSE Sentinel
Fraction(reviewed_lines, total_lines, pr_stats) ==
    IF total_lines > 0
    THEN [ num |-> reviewed_lines, den |-> total_lines ]
    ELSE Sentinel

Compute(ctx) ==
    LET github_data == Get(ctx, "github", EmptyDict)
    IN  IF DOMAIN github_data = {}
        THEN [ value |-> Sentinel, binary |-> 0,
               reason |-> "No GitHub repository" ]
        ELSE
          LET pr_stats == Get(github_data, "pr_review_stats", EmptyDict)
              total_lines_added == Get(pr_stats, "total_lines_added", 0)
              lines_from_reviewed_prs ==
                  Get(pr_stats, "lines_from_reviewed_prs", 0)
              reviewed_fraction ==
                  Fraction(lines_from_reviewed_prs, total_lines_added, pr_stats)
          IN  [ value  |-> reviewed_fraction,
                binary |-> IF GeHalf(reviewed_fraction) THEN 1 ELSE 0,
                reason |-> "" ]

\* the contexts handed to compute from outside a fetch
OutsideContexts ==
    { [ availability |-> 1 ],
      [ github |-> EmptyDict ],
      [ github |-> [ stars |-> 1 ] ],
      [ github |-> [ pr_review_stats |-> [ total_prs |-> 1 ] ] ] }
    \cup { [ github |-> [ pr_review_stats |->
               [ total_prs |-> 2, reviewed_prs |-> 1,
                 total_lines_added |-> t, lines_from_reviewed_prs |-> l ] ] ] :
             t \in 0..MaxLines, l \in 0..MaxLines }

\* github.py:69-70 and aggregator.py:115-117: the repository record, with
\* the fetched statistics, becomes context["github"]
FetchedContext(st) == [ github |-> [ stars |-> 0, pr_review_stats |-> st ] ]

NoMetric == [ value |-> Sentinel, binary |-> 0, reason |-> "not computed" ]
NoContext == [ none |-> 0 ]

(***************************************************************************)
(* The aggregator, aggregator.py: fetch_comprehensive_metrics_data.        *)
(* Floats are written in hundredths (0.5 is 50); Python None, where the    *)
(* other values of a field are strings, is the string None; a latency is   *)
(* 0 when measured and Null when given as None.                            *)
(***************************************************************************)
None == "None"

\* Python truth value of a string or None
Truthy(s) == s \notin {None, ""}

\* d[k] = v
Put(d, k, v) == [ x \in DOMAIN d \cup {k} |-> IF x = k THEN v ELSE d[x] ]

\* d.setdefault(k, v)
SetDefault(d, k, v) == IF k \in DOMAIN d THEN d ELSE Put(d, k, v)

\* the URLs handed to the aggregator, and the substrings the code looks for
CodeUrls == {"", "https://github.com/o/r", "https://gitlab.com/o/r"}
DatasetUrls == {"", "https://huggingface.co/datasets/d"}
ModelUrls == {"", "https://huggingface.co/m", "https://huggingface.co/datasets/d"}

Contains(url, part) ==
    CASE part = "github.com" -> url = "https://github.com/o/r"
      [] part = "huggingface.co" ->
             url \in {"https://huggingface.co/m", "https://huggingface.co/datasets/d"}
      [] part = "huggingface.co/datasets" -> url = "https://huggingface.co/datasets/d"
      [] part = "/datasets/" -> url = "https://huggingface.co/datasets/d"
      [] OTHER -> FALSE

\* aggregator.py:64, 94, 110: the tests that open the three sections
WantsModel(u) ==
    u.model # "" /\ Contains(u.model, "huggingface.co")
                 /\ ~ Contains(u.model, "/datasets/")
WantsDataset(u) == u.dataset # "" /\ Contains(u.dataset, "huggingface.co/datasets")
WantsCode(u) == u.code # "" /\ Contains(u.code, "github.com")

CompatibleLicenses == << "mit", "apache-2.0", "bsd-3-clause", "bsd", "mpl-2.0" >>

\* aggregator.py:26-37
DataInit ==
    [ availability |-> EmptyDict, license |-> None, repo_meta |-> EmptyDict,
      code_quality |-> EmptyDict, dataset_quality |-> EmptyDict,
      ramp |-> EmptyDict, size_components |-> EmptyDict,
      requirements_passed |-> 0, requirements_total |-> 1,
      compatible_licenses |-> CompatibleLicenses ]

\* aggregator.py:169-209, the context returned from the except clause
NeutralDefault ==
    [ availability |-> [ has_code |-> FALSE, has_dataset |-> FALSE,
                         has_model |-> FALSE, links_ok |-> FALSE ],
      license |-> "",
      repo_meta |-> [ contributors_count |-> 1, top_contributor_pct |-> 100 ],
      code_quality |-> [ test_coverage_norm |-> 0, style_norm |-> 50,
                         comment_ratio_norm |-> 50, maintainability_norm |-> 50 ],
      dataset_quality |-> [ cleanliness |-> 50, documentation |-> 30,
                            class_balance |-> 50 ],
      ramp |-> [ likes_norm |-> 10, downloads_norm |-> 10, recency_norm |-> 50 ],
      size_components |-> [ raspberry_pi |-> 1, jetson_nano |-> 1,
                            desktop_pc |-> 1, aws_server |-> 1 ],
      requirements_passed |-> 0, requirements_total |-> 1,
      compatible_licenses |-> CompatibleLicenses,
      availability_latency |-> Null, hf_model_latency |-> Null,
      hf_dataset_latency |-> Null, github_latency |-> Null ]

(***************************************************************************)
(* What the helpers of the data_fetcher package hand back.  Their code is  *)
(* outside the modelled sources: each returns one of a few records of the  *)
(* shape the aggregator reads, or raises (the raiseAt of an action).       *)
(***************************************************************************)
\* df.check_availability, aggregator.py:42
check_availability(u) ==
    [ has_code |-> u.code # "", has_dataset |-> u.dataset # "",
      has_model |-> u.model # "",
      links_ok |-> u.code # "" /\ u.dataset # "" /\ u.model # "" ]

\* df.get_huggingface_model_data, aggregator.py:67: the empty record, a
\* record with a license, one without
HfModelRecords ==
    { EmptyDict,
      [ license |-> "mit", downloads |-> 1000, total_size_bytes |-> 5 ],
      [ downloads |-> 1000 ] }

\* df.get_huggingface_dataset_data, aggregator.py:97
HfDatasetRecords ==
    { EmptyDict,
      [ description |-> "text", features |-> "f", splits |-> << "train" >> ],
      [ description |-> "" ] }

\* the updated_at of a repository record and what aggregator.py:145-147 makes
\* of it: the age in days, or an exception when it is no ISO date
UpdatedValues == { None, "2020-01-01T00:00:00Z", "73 days ago", "not a date" }
Parses(updated) == updated \in { "2020-01-01T00:00:00Z", "73 days ago" }
Days(updated) == IF updated = "73 days ago" THEN 73 ELSE 400

\* df.get_github_repo_data, aggregator.py:113: the empty record, the record
\* of defaults (github.py:23-40), records with contributors, files, a license
GithubDefault ==
    [ contributors |-> EmptyDict, files |-> << >>, license |-> None,
      stars |-> 0, forks |-> 0, created_at |-> None, updated_at |-> None,
      pr_review_stats |-> StatsInit ]

GithubRecords ==
    { EmptyDict, GithubDefault,
      [ GithubDefault EXCEPT !.license = "apache-2.0" ] }
    \cup { [ GithubDefault EXCEPT
               !.contributors = [ contributors_count |-> 2,
                                  top_contributor_pct |-> 60,
                                  total_contributions |-> 5 ],
               !.files = << "a.py" >>, !.license = lic, !.stars = 10,
               !.updated_at = upd ] :
           lic \in { None, "apache-2.0" }, upd \in UpdatedValues \ { None } }

normalize_downloads(downloads) == IF downloads > 0 THEN 40 ELSE 0
normalize_stars(stars) == IF stars > 0 THEN 60 ELSE 0

compute_size_scores(total_size) ==
    [ h \in { "raspberry_pi", "jetson_nano", "desktop_pc", "aws_server" } |->
        IF total_size = 0 THEN 100 ELSE 50 ]

analyze_code_quality(files) ==
    [ test_coverage_norm |-> 0, style_norm |-> 50, comment_ratio_norm |-> 50,
      maintainability_norm |-> IF Len(files) = 0 THEN 50 ELSE 80 ]

analyze_performance_claims(hf, files) ==
    [ requirements_passed |-> IF Len(files) = 0 THEN 1 ELSE 2,
      requirements_total |-> 2,
      requirements_score |-> IF Len(files) = 0 THEN 50 ELSE 100,
      details |-> "details" ]

\* aggregator.py:148-149: max(0.1, min(1.0, 1.0 - days / 365.0)), rounded down
RecencyNorm(days) ==
    LET r == 100 - (100 * days) \div 365
        m == IF r < 100 THEN r ELSE 100
    IN  IF m > 10 THEN m ELSE 10

(***************************************************************************)
(* The sections of the try block, each as the context it leaves behind     *)
(* when no helper raises.                                                  *)
(***************************************************************************)
\* the four keys copied from perf_analysis, aggregator.py:88-91 and 135-138
WithPerf(d, perf) ==
    Update(d, [ requirements_passed |-> perf.requirements_passed,
                requirements_total |-> perf.requirements_total,
                requirements_score |-> perf.requirements_score,
                performance_details |-> perf.details ])

\* aggregator.py:72-73
HubLicense(d, hf_m) ==
    IF Truthy(Get(hf_m, "license", None))
    THEN Put(d, "license", Get(hf_m, "license", None))
    ELSE d

\* aggregator.py:120-121 without "not data['license']"
RepoLicenseAlways(d, github_data) ==
    IF Truthy(Get(github_data, "license", None))
    THEN Put(d, "license", Get(github_data, "license", None))
    ELSE d
\* aggregator.py:120-121
RepoLicense(d, github_data) ==
    IF ~ Truthy(d.license) /\ Truthy(Get(github_data, "license", None))
    THEN Put(d, "license", Get(github_data, "license", None))
    ELSE d

\* aggregator.py:65-91
ModelSection(d, hf_m) ==
    LET d1 == Put(d, "hf_model_latency", 0)
        d2 == HubLicense(d1, hf_m)
        ramp == Update(Get(d2, "ramp", EmptyDict),
                       [ downloads_norm |->
                             normalize_downloads(Get(hf_m, "downloads", 0)),
                         likes_norm |-> 50, recency_norm |-> 70 ])
        d3 == Put(d2, "ramp", ramp)
        d4 == Put(d3, "size_components",
                  compute_size_scores(Get(hf_m, "total_size_bytes", 0)))
    IN  IF DOMAIN hf_m = {} THEN d1
        ELSE WithPerf(d4, analyze_performance_claims(hf_m, << >>))

\* aggregator.py:95-107
DatasetSection(d, hf_d) ==
    LET d1 == Put(d, "hf_dataset_latency", 0)
        desc == Get(hf_d, "description", "")
        features == Get(hf_d, "features", "")
        splits == Get(hf_d, "splits", << >>)
    IN  IF DOMAIN hf_d = {} THEN d1
        ELSE Put(d1, "dataset_quality",
                 [ cleanliness |-> IF features # "" THEN 80 ELSE 30,
                   documentation |-> IF desc # "" THEN 90 ELSE 20,
                   class_balance |-> IF Len(splits) > 0 THEN 70 ELSE 30 ])

\* aggregator.py:111-151
GithubSection(d, github_data, hf) ==
    LET d1 == Put(d, "github_latency", 0)
        d2 == Put(d1, "github", github_data)
        d3 == RepoLicense(d2, github_data)
        d4 == Put(d3, "repo_meta", Get(github_data, "contributors", EmptyDict))
        files == Get(github_data, "files", << >>)
        d5 == Put(d4, "code_quality", analyze_code_quality(files))
        d6 == Put(d5, "ramp",
                  SetDefault(Get(d5, "ramp", EmptyDict), "likes_norm",
                             normalize_stars(Get(github_data, "stars", 0))))
        d7 == IF DOMAIN hf # {}
              THEN WithPerf(d6, analyze_performance_claims(hf, files))
              ELSE d6
        updated == Get(github_data, "updated_at", None)
    IN  IF DOMAIN github_data = {} THEN d1
        ELSE IF Truthy(updated) /\ Parses(updated)
             THEN Put(d7, "ramp",
                      Put(d7.ramp, "recency_norm", RecencyNorm(Days(updated))))
             ELSE d7

\* aggregator.py:154-163
FillDefaults(d) ==
    LET r1 == SetDefault(Get(d, "ramp", EmptyDict), "downloads_norm", 10)
        r2 == SetDefault(r1, "likes_norm", 10)
        r3 == SetDefault(r2, "recency_norm", 50)
        d1 == Put(d, "ramp", r3)
        d2 == IF DOMAIN Get(d1, "code_quality", EmptyDict) = {}
              THEN Put(d1, "code_quality", analyze_code_quality(<< >>))
              ELSE d1
        d3 == IF DOMAIN Get(d2, "dataset_quality", EmptyDict) = {}
              THEN Put(d2, "dataset_quality",
                       [ cleanliness |-> 50, documentation |-> 30,
                         class_balance |-> 50 ])
              ELSE d2
    IN  IF DOMAIN Get(d3, "size_components", EmptyDict) = {}
        THEN Put(d3, "size_components", compute_size_scores(0))
        ELSE d3

\* aggregator.py:167-209: what the except clause returns, given the context
\* assembled so far
ExceptReturnPartial(d) == d
ExceptReturn(d) == NeutralDefault

\* the helper calls of each section that can raise, given what was fetched
ModelRaises(hf_m) ==
    { "get_huggingface_model_data" }
    \cup IF DOMAIN hf_m = {} THEN {}
         ELSE { "normalize_downloads", "compute_size_scores",
                "analyze_performance_claims" }
DatasetRaises(hf_d) ==
    { "get_huggingface_dataset_data" }
    \cup IF DOMAIN hf_d = {} THEN {} ELSE { "strip" }
GithubRaises(github_data, hf) ==
    { "get_github_repo_data" }
    \cup ( IF DOMAIN github_data = {} THEN {}
           ELSE { "analyze_code_quality", "normalize_stars" } )
    \cup ( IF DOMAIN github_data # {} /\ DOMAIN hf # {}
           THEN { "analyze_performance_claims" } ELSE {} )
FillRaises(d) ==
    ( IF DOMAIN Get(d, "code_quality", EmptyDict) = {}
      THEN { "analyze_code_quality" } ELSE {} )
    \cup ( IF DOMAIN Get(d, "size_components", EmptyDict) = {}
           THEN { "compute_size_scores" } ELSE {} )

(***************************************************************************)
(* The state machine.                                                      *)
(***************************************************************************)
\* history of one aggregator call: the helper call that raised, the license
\* the hub record and the repository record carried, the connectors called
\* and those that handed back the empty record, whether anything fetched
\* had been put into data when a helper raised
AggSeenInit ==
    [ raisedAt |-> "none", hub |-> None, repo |-> None,
      called |-> {}, empty |-> {}, gathered |-> FALSE ]

\* history of one get_github_repo_data call: whether the URL gave an owner
\* and a repository, what each upstream call handed back, whether the last
\* step raised
RepoSeenInit == [ calls |-> << >>, extracted |-> FALSE, raised |-> FALSE ]

NoUrls == [ code |-> "", dataset |-> "", model |-> "" ]

\* no call of the aggregator under way
AggIdle ==
    /\ urls = NoUrls
    /\ apc = "idle"
    /\ data = EmptyDict
    /\ hf_model_data = EmptyDict
    /\ ctxout = NoResult
    /\ agg = AggSeenInit

\* no scoring, no repository fetch, no command-line run under way
ScoreIdle ==
    /\ spc = "idle"
    /\ rctx = NoContext
    /\ results = EmptyDict
    /\ summary = NoResult

RepoIdle ==
    /\ rpc = "idle"
    /\ rdata = EmptyDict
    /\ rout = NoResult
    /\ rseen = RepoSeenInit

CliIdle ==
    /\ cpc = "idle"
    /\ ndjsons = << >>
    /\ printed = << >>
    /\ verdicts = << >>
    /\ rc = Null

\* no request served yet; the registry is empty (app.py:8)
NoRequest ==
    [ op |-> "none", auth |-> FALSE, perm |-> "user", artifact_type |-> "",
      id |-> "", body |-> EmptyDict, status |-> 0, out |-> EmptyDict,
      before |-> << >> ]

ApiIdle ==
    /\ model_registry = << >>
    /\ api = NoRequest
    /\ created = EmptyDict

Init ==
    /\ AggIdle
    /\ ScoreIdle
    /\ RepoIdle
    /\ CliIdle
    /\ ApiIdle
    /\ pc = "start"
    /\ stats = StatsInit
    /\ prstats = PrStatsInit
    /\ cursor = Null
    /\ has_next_page = TRUE
    /\ prs_processed = 0
    /\ ctl = "none"
    /\ result = NoResult
    /\ reqCursors = <<>>
    /\ seen = SeenInit
    /\ context = NoContext
    /\ metric = NoMetric

\* github.py:106-126 and 153-189: get_pr_review_stats up to the first test
\* of the while condition, which holds (has_next_page, 0 < max_prs)
GetCommits ==
    /\ pc = "start"
    /\ \E resp \in CommitResponses :
         /\ stats' = [StatsInit EXCEPT !.total_commits = TotalCommits(resp)]
         /\ seen' = [seen EXCEPT !.anyOk = resp.kind # "none"]
    /\ prstats' = PrStatsInit
    /\ cursor' = Null
    /\ has_next_page' = TRUE
    /\ prs_processed' = 0
    /\ pc' = "loop"
    /\ UNCHANGED << ctl, result, reqCursors, context, metric >>
    /\ UNCHANGED notFetch

\* github.py:191-263 and 129-140: one page request and the pass through the
\* loop body on its response; when the loop is left, the return of
\* _fetch_prs_with_graphql, stats.update (skipped when an exception reached
\* the except clause at 137) and the return of get_pr_review_stats
FetchPage ==
    /\ pc = "loop"
    /\ Len(reqCursors) < MaxRequests
    /\ \E r \in Responses :
         LET it == Iteration([ stats |-> prstats,
                               prs_processed |-> prs_processed,
                               has_next_page |-> has_next_page,
                               cursor |-> cursor ], r)
             again == Continues(it.ctl, it.has_next_page, it.prs_processed)
         IN  /\ reqCursors' = Append(reqCursors, cursor)
             /\ seen' = Observe(seen, r)
             /\ prstats' = it.stats
             /\ prs_processed' = it.prs_processed
             /\ has_next_page' = it.has_next_page
             /\ cursor' = it.cursor
             /\ ctl' = it.ctl
             /\ IF again
                THEN /\ pc' = "loop"
                     /\ UNCHANGED << stats, result >>
                ELSE /\ pc' = "returned"
                     /\ stats' = IF it.ctl = "raise" THEN stats
                                 ELSE Update(stats, it.stats)
                     /\ result' = stats'
    /\ UNCHANGED << context, metric >>
    /\ UNCHANGED notFetch

\* ReviewednessMetric.compute on the context built from the fetched record
ScoreFetched ==
    /\ pc = "returned"
    /\ context' = FetchedContext(result)
    /\ metric' = Compute(context')
    /\ pc' = "scored"
    /\ UNCHANGED << stats, prstats, cursor, has_next_page, prs_processed,
                    ctl, result, reqCursors, seen >>
    /\ UNCHANGED notFetch

\* ReviewednessMetric.compute on a context given from outside
ScoreGiven ==
    /\ pc = "start"
    /\ \E ctx \in OutsideContexts :
         /\ context' = ctx
         /\ metric' = Compute(ctx)
    /\ pc' = "scored"
    /\ UNCHANGED << stats, prstats, cursor, has_next_page, prs_processed,
                    ctl, result, reqCursors, seen >>
    /\ UNCHANGED notFetch

Next == GetCommits \/ FetchPage \/ ScoreFetched \/ ScoreGiven

Spec == Init /\ [][Next]_vars

(***************************************************************************)
(* One call of fetch_comprehensive_metrics_data, section by section.  In   *)
(* every section a helper may raise; the except clause at aggregator.py    *)
(* 167 then ends the call.                                                 *)
(***************************************************************************)
\* the except clause: the call returns, data is dropped
Raise(at) ==
    /\ ctxout' = ExceptReturn(data)
    /\ apc' = "returned"
    /\ agg' = [agg EXCEPT !.raisedAt = at, !.gathered = data # DataInit]
    /\ UNCHANGED << urls, data, hf_model_data >>

\* aggregator.py:16-37: the call and the initial data
AggCall ==
    /\ apc = "idle"
    /\ \E c \in CodeUrls, ds \in DatasetUrls, m \in ModelUrls :
         urls' = [ code |-> c, dataset |-> ds, model |-> m ]
    /\ data' = DataInit
    /\ hf_model_data' = EmptyDict
    /\ apc' = "avail"
    /\ UNCHANGED << ctxout, agg >>
    /\ UNCHANGED notAgg

\* aggregator.py:41-44
AggAvailability ==
    /\ apc = "avail"
    /\ \/ Raise("check_availability")
       \/ /\ data' = Put(Put(data, "availability", check_availability(urls)),
                         "availability_latency", 0)
          /\ apc' = "model"
          /\ UNCHANGED << urls, hf_model_data, ctxout, agg >>
    /\ UNCHANGED notAgg

\* aggregator.py:63-91
AggModel ==
    /\ apc = "model"
    /\ IF ~ WantsModel(urls)
       THEN /\ apc' = "dataset"
            /\ UNCHANGED << urls, data, hf_model_data, ctxout, agg >>
       ELSE \E hf_m \in HfModelRecords :
              \/ \E at \in ModelRaises(hf_m) : Raise(at)
              \/ /\ data' = ModelSection(data, hf_m)
                 /\ hf_model_data' = hf_m
                 /\ agg' = [agg EXCEPT
                              !.hub = Get(hf_m, "license", None),
                              !.called = @ \cup {"model"},
                              !.empty = IF DOMAIN hf_m = {}
                                        THEN @ \cup {"model"} ELSE @]
                 /\ apc' = "dataset"
                 /\ UNCHANGED << urls, ctxout >>
    /\ UNCHANGED notAgg

\* aggregator.py:94-107
AggDataset ==
    /\ apc = "dataset"
    /\ IF ~ WantsDataset(urls)
       THEN /\ apc' = "github"
            /\ UNCHANGED << urls, data, hf_model_data, ctxout, agg >>
       ELSE \E hf_d \in HfDatasetRecords :
              \/ \E at \in DatasetRaises(hf_d) : Raise(at)
              \/ /\ data' = DatasetSection(data, hf_d)
                 /\ agg' = [agg EXCEPT
                              !.called = @ \cup {"dataset"},
                              !.empty = IF DOMAIN hf_d = {}
                                        THEN @ \cup {"dataset"} ELSE @]
                 /\ apc' = "github"
                 /\ UNCHANGED << urls, hf_model_data, ctxout >>
    /\ UNCHANGED notAgg

\* aggregator.py:110-151
AggGithub ==
    /\ apc = "github"
    /\ IF ~ WantsCode(urls)
       THEN /\ apc' = "fill"
            /\ UNCHANGED << urls, data, hf_model_data, ctxout, agg >>
       ELSE \E github_data \in GithubRecords :
              \/ \E at \in GithubRaises(github_data, hf_model_data) : Raise(at)
              \/ /\ data' = GithubSection(data, github_data, hf_model_data)
                 /\ agg' = [agg EXCEPT
                              !.repo = Get(github_data, "license", None),
                              !.called = @ \cup {"code"},
                              !.empty = IF DOMAIN github_data = {}
                                        THEN @ \cup {"code"} ELSE @]
                 /\ apc' = "fill"
                 /\ UNCHANGED << urls, hf_model_data, ctxout >>
    /\ UNCHANGED notAgg

\* aggregator.py:153-166
AggFill ==
    /\ apc = "fill"
    /\ \/ \E at \in FillRaises(data) : Raise(at)
       \/ /\ data' = FillDefaults(data)
          /\ ctxout' = data'
          /\ apc' = "returned"
          /\ UNCHANGED << urls, hf_model_data, agg >>
    /\ UNCHANGED notAgg

NextAgg ==
    AggCall \/ AggAvailability \/ AggModel \/ AggDataset \/ AggGithub \/ AggFill

SpecAgg == Init /\ [][NextAgg]_vars

(***************************************************************************)
(* Properties.                                                             *)
(***************************************************************************)
Returned == result # NoResult

\* how the while loop was left; "none" while it runs
Exit == IF Returned THEN ExitOf(ctl, has_next_page) ELSE "none"

SixKeys ==
    { "total_prs", "reviewed_prs", "total_commits", "pr_commits",
      "lines_from_reviewed_prs", "total_lines_added" }

NoDup(q) == \A i, j \in 1..Len(q) : q[i] = q[j] => i = j

\* C1: when every served page is well formed, only the last one reports
\* hasNextPage = false and fewer items than the ceiling were served, the
\* fetch has issued exactly one request per page, stopped on the page that
\* reported hasNextPage = false, and returns the sums over the items of all
\* pages, the reviewed counters over the items with a review count > 0.
C1_AllPagesSummed ==
    (Returned /\ ~seen.bad /\ seen.items < max_prs) =>
        /\ Exit = "no_next"
        /\ Len(reqCursors) = seen.responses
        /\ seen.lasts = 1 /\ ~seen.lastNext
        /\ result.total_lines_added = seen.adds
        /\ result.pr_commits = seen.commits
        /\ result.reviewed_prs = seen.reviewed
        /\ result.lines_from_reviewed_prs = seen.rlines

\* two pages were fetched, with a reviewed and an unreviewed item
C1_Witness ==
    /\ Returned /\ ~seen.bad /\ seen.items < max_prs
    /\ seen.spread /\ seen.reviewed >= 1
    /\ 0 < seen.rlines /\ seen.rlines < seen.adds

\* C2: total_prs is the totalCount of the first page and is never
\* overwritten by the totalCount of a later page, whatever the pages report.
C2_TotalFromFirstPage ==
    seen.firstTotal # Null => prstats.total_prs = seen.firstTotal

\* C3: when a page fails, get_pr_review_stats returns and its counters hold
\* at least what the pages before the failed one contributed.
C3_AccumulationKept ==
    (Returned /\ Exit \in {"break", "raise"}) =>
        /\ result.total_lines_added >= seen.adds
        /\ result.pr_commits >= seen.commits
        /\ result.reviewed_prs >= seen.reviewed
        /\ result.lines_from_reviewed_prs >= seen.rlines

\* C4: the loop ends after a bounded number of page requests, whatever the
\* service answers: the ceiling is the only bound the loop has, so while the
\* loop is still running fewer than max_prs requests have been issued.
C4_BoundedRequests ==
    pc = "loop" => Len(reqCursors) < max_prs

\* C5: an item that lacks additions, commits or reviews contributes 0 to the
\* counter of the missing sub-field, is counted as processed, and does not
\* end the fetch: the items and pages after it are accumulated.
C5_MissingFieldsCountZero ==
    (seen.gappy /\ ~seen.bad) =>
        /\ ctl = "next"
        /\ prs_processed = seen.items
        /\ prstats.total_lines_added = seen.adds
        /\ prstats.pr_commits = seen.commits
        /\ prstats.reviewed_prs = seen.reviewed

\* an item without the sub-fields was served and items after it were added
C5_Witness ==
    /\ seen.gappy /\ ~seen.bad /\ seen.afterGappy
    /\ seen.adds > 0 /\ Returned

\* C6: get_pr_review_stats returns a record of exactly the six counters, all
\* natural numbers; when no request to the service succeeded all are 0.
C6_SixCounters ==
    Returned =>
        /\ DOMAIN result = SixKeys
        /\ \A k \in SixKeys : result[k] \in Nat
        /\ ~seen.anyOk => \A k \in SixKeys : result[k] = 0

\* the commit listing and the page request both came back empty
C6_Witness == Returned /\ ~seen.anyOk /\ seen.responses = 1

\* the first request carries a null cursor, each later one the endCursor of
\* the response before it
CursorChain ==
    \A k \in 1..Len(reqCursors) :
        reqCursors[k] = IF k = 1 THEN Null ELSE seen.given[k - 1]

\* once a pass through the loop ended in a break or an exception, no page
\* request is issued
Failed == ctl \in {"break", "raise"}

NoRequestAfterFailure == [][Failed => reqCursors' = reqCursors]_vars

\* the service handed out the same endCursor twice, or a null one, among the
\* responses that were followed by a request
ServedCursorTwice ==
    \E i \in 1..(Len(reqCursors) - 1) :
        \/ seen.given[i] = Null
        \/ \E j \in 1..(Len(reqCursors) - 1) :
              i # j /\ seen.given[i] = seen.given[j]

\* C7 as stated: after a failed page no further request is issued, the first
\* request carries a null cursor and each later one the endCursor of the
\* page before it, and every cursor value is requested at most once.
C7_EveryCursorOnce ==
    /\ [](CursorChain /\ NoDup(reqCursors))
    /\ NoRequestAfterFailure

\* C7 amended: after a failed page no further request is issued, the first
\* request carries a null cursor and each later one the endCursor of the
\* page before it; a cursor value is requested twice only when the service
\* itself handed out that endCursor twice, or a null endCursor.
C7_CursorsFollowPages ==
    /\ [](CursorChain /\ (NoDup(reqCursors) \/ ServedCursorTwice))
    /\ NoRequestAfterFailure

\* a request with a cursor not requested before failed and ended the fetch
C7_Witness ==
    /\ Returned /\ Failed
    /\ Len(reqCursors) >= 2 /\ NoDup(reqCursors)

(***************************************************************************)
(* What a context holds, read as the claims read it.                       *)
(***************************************************************************)
HasRepo(ctx) == "github" \in DOMAIN ctx /\ DOMAIN ctx.github # {}

HasPrStats(ctx) == HasRepo(ctx) /\ "pr_review_stats" \in DOMAIN ctx.github

TotalLines(ctx) ==
    IF HasPrStats(ctx)
       /\ "total_lines_added" \in DOMAIN ctx.github.pr_review_stats
    THEN ctx.github.pr_review_stats.total_lines_added
    ELSE 0

ReviewedLines(ctx) ==
    IF HasPrStats(ctx)
       /\ "lines_from_reviewed_prs" \in DOMAIN ctx.github.pr_review_stats
    THEN ctx.github.pr_review_stats.lines_from_reviewed_prs
    ELSE 0

C9_ZeroForNoPrData ==
    (pc = "scored" /\ HasRepo(context) /\ TotalLines(context) = 0) =>
        metric.value.num = 0 /\ metric.binary = 0

\* C10: binary is 1 exactly when value >= 0.5; a fraction of exactly 1/2
\* gives 1, a smaller one 0, the sentinel 0.
C10_BinaryIffHalf ==
    pc = "scored" =>
        /\ metric.binary \in {0, 1}
        /\ metric.binary = 1 <=> 2 * metric.value.num >= metric.value.den

\* a reviewed fraction of exactly one half scored 1
C10_Witness ==
    /\ pc = "scored" /\ metric.value.num > 0
    /\ 2 * metric.value.num = metric.value.den /\ metric.binary = 1

(***************************************************************************)
(* Scoring: the default plan (ops_plan.py), the metric units and the       *)
(* weighted aggregation.  A value is a fraction [num, den] with den > 0;   *)
(* a weight is written in hundredths.                                      *)
(***************************************************************************)
Zero == [ num |-> 0, den |-> 1 ]
Half == [ num |-> 1, den |-> 2 ]
One == [ num |-> 1, den |-> 1 ]

RECURSIVE GCD(_, _)
GCD(a, b) == IF b = 0 THEN a ELSE GCD(b, a % b)

Abs(n) == IF n < 0 THEN 0 - n ELSE n

\* the fraction in lowest terms
Reduce(v) ==
    LET g == GCD(Abs(v.num), v.den)
    IN  [ num |-> v.num \div g, den |-> v.den \div g ]

RatAdd(a, b) == Reduce([ num |-> a.num * b.den + b.num * a.den,
                         den |-> a.den * b.den ])
\* n hundredths of v
Hundredths(n, v) == Reduce([ num |-> n * v.num, den |-> 100 * v.den ])
RatLe(a, b) == a.num * b.den <= b.num * a.den
InUnit(v) == RatLe(Zero, v) /\ RatLe(v, One)

\* ops_plan.py:10-28 with the weight of size typed as 0.50
default_ops_heavy ==
    << [ metric_id |-> "size", weight |-> 50, normalization |-> "minmax",
         min |-> 0, max |-> 1 ],
       [ metric_id |-> "license_compliance", weight |-> 8,
         normalization |-> "identity", min |-> 0, max |-> 1 ],
       [ metric_id |-> "ramp_up_time", weight |-> 10,
         normalization |-> "minmax", min |-> 0, max |-> 1 ],
       [ metric_id |-> "bus_factor", weight |-> 8, normalization |-> "minmax",
         min |-> 0, max |-> 1 ],
       [ metric_id |-> "availability", weight |-> 12,
         normalization |-> "identity", min |-> 0, max |-> 1 ],
       [ metric_id |-> "dataset_quality", weight |-> 15,
         normalization |-> "minmax", min |-> 0, max |-> 1 ],
       [ metric_id |-> "code_quality", weight |-> 12,
         normalization |-> "minmax", min |-> 0, max |-> 1 ],
       [ metric_id |-> "performance_claims", weight |-> 10,
         normalization |-> "minmax", min |-> 0, max |-> 1 ],
       [ metric_id |-> "reviewedness", weight |-> 7,
         normalization |-> "identity", min |-> 0, max |-> 1 ],
       [ metric_id |-> "reproducibility", weight |-> 8,
         normalization |-> "identity", min |-> 0, max |-> 1 ],
       [ metric_id |-> "treescore", weight |-> 5,
         normalization |-> "identity", min |-> 0, max |-> 1 ] >>

\* the same with the weights of reviewedness and reproducibility exchanged
default_ops_swapped ==
    [ default_ops_heavy EXCEPT ![1].weight = 5, ![9].weight = 8,
                               ![10].weight = 7 ]

\* the same with treescore at 0.04: the weights sum to 0.99
default_ops_short ==
    [ default_ops_heavy EXCEPT ![1].weight = 5, ![11].weight = 4 ]

\* ops_plan.py:10-28: metric id, weight, normalization kind and its bounds
\* (an identity rule has none; they are written 0 and 1 and not used)
default_ops ==
    << [ metric_id |-> "size", weight |-> 5, normalization |-> "minmax",
         min |-> 0, max |-> 1 ],
       [ metric_id |-> "license_compliance", weight |-> 8,
         normalization |-> "identity", min |-> 0, max |-> 1 ],
       [ metric_id |-> "ramp_up_time", weight |-> 10,
         normalization |-> "minmax", min |-> 0, max |-> 1 ],
       [ metric_id |-> "bus_factor", weight |-> 8, normalization |-> "minmax",
         min |-> 0, max |-> 1 ],
       [ metric_id |-> "availability", weight |-> 12,
         normalization |-> "identity", min |-> 0, max |-> 1 ],
       [ metric_id |-> "dataset_quality", weight |-> 15,
         normalization |-> "minmax", min |-> 0, max |-> 1 ],
       [ metric_id |-> "code_quality", weight |-> 12,
         normalization |-> "minmax", min |-> 0, max |-> 1 ],
       [ metric_id |-> "performance_claims", weight |-> 10,
         normalization |-> "minmax", min |-> 0, max |-> 1 ],
       [ metric_id |-> "reviewedness", weight |-> 7,
         normalization |-> "identity", min |-> 0, max |-> 1 ],
       [ metric_id |-> "reproducibility", weight |-> 8,
         normalization |-> "identity", min |-> 0, max |-> 1 ],
       [ metric_id |-> "treescore", weight |-> 5,
         normalization |-> "identity", min |-> 0, max |-> 1 ] >>

\* the metric ids the plan names
PlanIds == { default_ops[i].metric_id : i \in 1..Len(default_ops) }

\* the threshold of the binary net score, 0.5
Threshold == Half

\* the normalization of a rule: identity passes the value through, minmax
\* rescales between the rule's bounds and clamps to [0,1]
Normalize(rule, v) ==
    IF rule.normalization = "minmax"
    THEN LET r == Reduce([ num |-> v.num - rule.min * v.den,
                           den |-> v.den * (rule.max - rule.min) ])
         IN  IF RatLe(r, Zero) THEN Zero ELSE IF RatLe(One, r) THEN One ELSE r
    ELSE v

\* the contribution of one rule: none for the -1 sentinel, else the weight
\* times the normalized value
Contribution(rule, v) ==
    IF v = Sentinel THEN Zero
    ELSE Hundredths(rule.weight, Normalize(rule, v))

\* the fold over the first n rules
RECURSIVE WeightedSum(_, _, _)
WeightedSum(rules, res, n) ==
    IF n = 0 THEN Zero
    ELSE RatAdd(WeightedSum(rules, res, n - 1),
                Contribution(rules[n], res[rules[n].metric_id]))

\* aggregate(rules, results): the weighted net score and its binary
aggregate(rules, res) ==
    LET w == WeightedSum(rules, res, Len(rules))
    IN  [ weighted |-> w, binary |-> IF RatLe(Threshold, w) THEN 1 ELSE 0 ]

\* most metrics whose given value differs from the others'
MaxOdd == 2

\* reproducibility.py:50 and treescore.py:51: placeholder_value = 0.75
placeholder_value == [ num |-> 3, den |-> 4 ]

\* the units of the registry whose code is modelled here, and the others
CodedUnits == { "reviewedness", "reproducibility", "treescore" }
OtherUnits == PlanIds \ CodedUnits

\* what a unit of OtherUnits returns: a value in [0,1]
UnitValues == { Zero, One }

\* the value of the MetricResult of each unit on a context; vals gives the
\* values of the units that are not modelled
UnitValue(id, ctx, vals) ==
    CASE id = "reviewedness" -> Compute(ctx).value
      [] id \in { "reproducibility", "treescore" } -> placeholder_value
      [] OTHER -> vals[id]

\* the contexts handed to run_metrics: those of OutsideContexts whose
\* reviewed lines do not exceed their total lines
RunnerContexts ==
    { c \in OutsideContexts :
        LET st == Get(Get(c, "github", EmptyDict), "pr_review_stats", EmptyDict)
        IN  Get(st, "lines_from_reviewed_prs", 0)
                <= Get(st, "total_lines_added", 0) }

\* the values of results handed to aggregate directly
GivenValues == { Sentinel, Zero, Half, One }

\* results handed to aggregate directly: every metric at the value b, but
\* for those of S, at most MaxOdd of them, which are at g
OddSets == { T \in SUBSET PlanIds : Cardinality(T) <= MaxOdd }
GivenResult(b, S, g) == [ id \in PlanIds |-> IF id \in S THEN g[id] ELSE b ]

\* run_metrics(default_ops, context): every unit computes on the same
\* context, then the results are aggregated over the plan
RunMetrics ==
    /\ spc = "idle"
    /\ \E ctx \in RunnerContexts, vals \in [ OtherUnits -> UnitValues ] :
         /\ rctx' = ctx
         /\ results' = [ id \in PlanIds |-> UnitValue(id, ctx, vals) ]
    /\ summary' = aggregate(default_ops, results')
    /\ spc' = "ran"
    /\ UNCHANGED notScore

\* aggregate(default_ops, results) on results given from outside
AggregateGiven ==
    /\ spc = "idle"
    /\ \E b \in GivenValues, S \in OddSets :
         \E g \in [ S -> GivenValues ] : results' = GivenResult(b, S, g)
    /\ summary' = aggregate(default_ops, results')
    /\ spc' = "aggregated"
    /\ UNCHANGED rctx
    /\ UNCHANGED notScore

NextScore == RunMetrics \/ AggregateGiven

SpecScore == Init /\ [][NextScore]_vars

(***************************************************************************)
(* The command line, cli/main.py: validate_ndjson and the output loop of   *)
(* main; and validate_ndjson of cli/validate.py.  A value of a record is   *)
(* tagged with its Python type; a float is written in hundredths.          *)
(***************************************************************************)
\* most records evaluated in one run
MaxRecords == 2

F(x) == [ t |-> "float", v |-> x ]
I(n) == [ t |-> "int", v |-> n ]
Str(x) == [ t |-> "str", v |-> x ]
NoneV == [ t |-> "none", v |-> 0 ]
D(f) == [ t |-> "dict", v |-> f ]

\* main.py:74-100
string_fields == { "name", "category" }
score_fields ==
    { "net_score", "ramp_up_time", "bus_factor", "performance_claims",
      "license", "size_score", "dataset_and_code_score", "dataset_quality",
      "code_quality", "reviewedness", "reproducibility", "treescore" }
latency_fields == { f \o "_latency" : f \in score_fields }

\* validate.py:4-24
module_score_fields ==
    score_fields \ { "reviewedness", "reproducibility", "treescore" }
module_latency_fields == { f \o "_latency" : f \in module_score_fields }

\* main.py:111-112: a string or None
StringOk(x) == x.t \in { "str", "none" }

\* main.py:122, 132: v == -1.0 or v == -1
IsMinusOne(x) == (x.t = "float" /\ x.v = 0 - 100) \/ (x.t = "int" /\ x.v = 0 - 1)

\* isinstance(v, float) and 0.00 <= v <= 1.00, with an int taken for a float
UnitNumber(x) == x.t \in { "float", "int" } /\ 0 <= x.v /\ x.v <= 100
\* main.py:124-127, 134-136: isinstance(v, float) and 0.00 <= v <= 1.00
UnitFloat(x) == x.t = "float" /\ 0 <= x.v /\ x.v <= 100

\* main.py:119-137: one score field, a dict of values or a value
ScoreOk(x) ==
    IF x.t = "dict"
    THEN \A k \in DOMAIN x.v :
           IsMinusOne(x.v[k]) \/ x.v[k].t = "none" \/ UnitFloat(x.v[k])
    ELSE x.t = "none" \/ IsMinusOne(x) \/ UnitFloat(x)

\* validate.py:43-56: the same without the allowance for -1
ModuleScoreOk(x) ==
    IF x.t = "dict"
    THEN \A k \in DOMAIN x.v : x.v[k].t = "none" \/ UnitFloat(x.v[k])
    ELSE x.t = "none" \/ UnitFloat(x)

\* main.py:141-145: None or a non-negative int
LatencyOk(x) == x.t = "none" \/ (x.t = "int" /\ x.v >= 0)

\* main.py:73-147 (every record of the model is a dict)
validate_ndjson(record) ==
    /\ score_fields \cup latency_fields \cup string_fields \subseteq DOMAIN record
    /\ \A f \in string_fields : StringOk(record[f])
    /\ \A f \in score_fields : ScoreOk(record[f])
    /\ \A f \in latency_fields : LatencyOk(record[f])

\* validate.py:3-66
module_validate_ndjson(record) ==
    /\ module_score_fields \cup module_latency_fields \cup string_fields
           \subseteq DOMAIN record
    /\ \A f \in string_fields : StringOk(record[f])
    /\ \A f \in module_score_fields : ModuleScoreOk(record[f])
    /\ \A f \in module_latency_fields : LatencyOk(record[f])

\* a record every validator accepts: scores of 0.5, a size_score dict,
\* latencies of 5 ms
BaseRecord ==
    [ f \in score_fields \cup latency_fields \cup string_fields |->
        CASE f = "name" -> Str("model")
          [] f = "category" -> Str("MODEL")
          [] f = "size_score" -> D([ raspberry_pi |-> F(50), aws_server |-> F(100) ])
          [] f \in score_fields -> F(50)
          [] OTHER -> I(5) ]

Without(record, f) == [ k \in DOMAIN record \ { f } |-> record[k] ]

\* the values tried for net_score, besides its absence
NetScoreValues ==
    { NoneV, F(0), F(50), F(100), F(150), F(0 - 50), F(0 - 100), I(0 - 1), I(1),
      Str("high") }

\* the evaluated records: the accepted one, and records differing from it in
\* net_score, in the name, in a latency or inside the size_score dict
Records ==
    { BaseRecord, Without(BaseRecord, "net_score"), Without(BaseRecord, "name") }
    \cup { [ BaseRecord EXCEPT !.net_score = x ] : x \in NetScoreValues }
    \cup { [ BaseRecord EXCEPT !.name = x ] : x \in { NoneV, I(3) } }
    \cup { [ BaseRecord EXCEPT !.net_score_latency = x ] :
             x \in { NoneV, I(0 - 1), F(50) } }
    \cup { [ BaseRecord EXCEPT !.size_score = D([ raspberry_pi |-> x ]) ] :
             x \in { NoneV, I(0 - 1), F(150) } }

\* main.py:265-268: the line printed for a record that fails validation
ErrorLine(ndjson) ==
    [ name |-> Get(ndjson, "name", Str("unknown")),
      error |-> Str("Invalid record") ]

\* main.py:262-268 with the validation left out
OutputLineUnchecked(ndjson) == ndjson
\* main.py:262-268: the object whose JSON text is printed for a record
OutputLine(ndjson) ==
    IF validate_ndjson(ndjson) THEN ndjson ELSE ErrorLine(ndjson)

\* main.py:258: evaluate_url hands back the records, in input order
CliEvaluate ==
    /\ cpc = "idle"
    /\ \E n \in 0..MaxRecords : \E recs \in [ 1..n -> Records ] : ndjsons' = recs
    /\ cpc' = "loop"
    /\ UNCHANGED << printed, verdicts, rc >>
    /\ UNCHANGED notCli

\* main.py:260-268: one pass of the output loop
CliPrint ==
    /\ cpc = "loop"
    /\ Len(printed) < Len(ndjsons)
    /\ LET ndjson == ndjsons[Len(printed) + 1]
       IN  /\ verdicts' = Append(verdicts, validate_ndjson(ndjson))
           /\ printed' = Append(printed, OutputLine(ndjson))
    /\ UNCHANGED << cpc, ndjsons, rc >>
    /\ UNCHANGED notCli

\* main.py:270: the loop is over
CliReturn ==
    /\ cpc = "loop"
    /\ Len(printed) = Len(ndjsons)
    /\ rc' = 0
    /\ cpc' = "returned"
    /\ UNCHANGED << ndjsons, printed, verdicts >>
    /\ UNCHANGED notCli

\* validate.py:3-66: a call of its validate_ndjson on one record
ModuleValidate ==
    /\ cpc = "idle"
    /\ \E record \in Records :
         /\ ndjsons' = << record >>
         /\ verdicts' = << module_validate_ndjson(record) >>
    /\ cpc' = "validated"
    /\ UNCHANGED << printed, rc >>
    /\ UNCHANGED notCli

NextCli == CliEvaluate \/ CliPrint \/ CliReturn \/ ModuleValidate

SpecCli == Init /\ [][NextCli]_vars

(***************************************************************************)
(* The repository connector, github.py: get_github_repo_data.  The bodies  *)
(* of the upstream responses are JSON values tagged with their type, as    *)
(* for the records of the command line.  A step either gives the new data  *)
(* or raises.                                                              *)
(***************************************************************************)
\* a step that raised, and one that left d behind
Raised == [ raised |-> TRUE, data |-> EmptyDict ]
Done(d) == [ raised |-> FALSE, data |-> d ]

\* what safe_request gives for one call: no response, a response that is not
\* ok (falsy, as requests.Response is), one whose body is no JSON, or a body
RepoBodies ==
    { D([ stargazers_count |-> I(10), forks_count |-> I(2),
          created_at |-> Str("2019-05-01T00:00:00Z"),
          updated_at |-> Str("73 days ago"),
          license |-> D([ spdx_id |-> Str("MIT") ]) ]),
      D([ stargazers_count |-> NoneV, forks_count |-> I(2), license |-> NoneV ]),
      D(EmptyDict),
      D([ stargazers_count |-> I(10), license |-> Str("MIT") ]),
      Str("not an object") }

ContributorBodies ==
    { D([ message |-> Str("Not Found") ]),
      [ t |-> "list", v |-> << >> ],
      [ t |-> "list", v |-> << D([ contributions |-> I(3) ]),
                               D([ contributions |-> I(2) ]) >> ],
      [ t |-> "list", v |-> << D([ login |-> Str("a") ]) >> ],
      [ t |-> "list", v |-> << D([ contributions |-> I(3) ]),
                               D([ contributions |-> NoneV ]) >> ],
      [ t |-> "list", v |-> << D([ contributions |-> I(3) ]), Str("b") >> ] }

TreeBodies ==
    { D(EmptyDict),
      D([ tree |-> [ t |-> "list", v |->
            << D([ path |-> Str("a.py"), type |-> Str("blob") ]),
               D([ path |-> Str("src"), type |-> Str("tree") ]) >> ] ]),
      D([ tree |-> [ t |-> "list", v |->
            << D([ path |-> Str("a.py"), type |-> Str("blob") ]),
               D([ type |-> Str("blob") ]) >> ] ]),
      D([ tree |-> [ t |-> "list", v |->
            << D([ path |-> Str("a.py"), type |-> Str("blob") ]),
               Str("b") >> ] ]),
      D([ tree |-> NoneV ]) }

FailedKinds == { "none", "not_ok", "bad_json" }

UpstreamOf(bodies) ==
    { [ kind |-> k, body |-> NoneV ] : k \in FailedKinds }
    \cup { [ kind |-> "ok", body |-> b ] : b \in bodies }

\* x or 0, for a count
OrZero(x) == IF x.t = "int" THEN x.v ELSE 0
\* a string value or None
StrOrNone(x) == IF x.t = "str" THEN x.v ELSE None

\* github.py:45-53: the repository metadata
RepoStep(d, resp) ==
    IF resp.kind \in { "none", "not_ok" } THEN Done(d)
    ELSE IF resp.kind = "bad_json" \/ resp.body.t # "dict" THEN Raised
    ELSE LET rd == resp.body.v
             lic == Get(rd, "license", NoneV)
         IN  IF lic.t \notin { "none", "dict" } THEN Raised
             ELSE Done(Update(d,
                    [ stars |-> OrZero(Get(rd, "stargazers_count", I(0))),
                      forks |-> OrZero(Get(rd, "forks_count", I(0))),
                      created_at |-> StrOrNone(Get(rd, "created_at", NoneV)),
                      updated_at |-> StrOrNone(Get(rd, "updated_at", NoneV)),
                      license |-> IF lic.t = "dict" /\ DOMAIN lic.v # {}
                                  THEN StrOrNone(Get(lic.v, "spdx_id", NoneV))
                                  ELSE None ]))

\* sum(c.get("contributions", 0) for c in lst); -1 stands for the exception
\* of an entry that is no dict or whose contributions are null
RECURSIVE Contributions(_)
Contributions(lst) ==
    IF Len(lst) = 0 THEN 0
    ELSE LET c == lst[1]
             rest == Contributions(Tail(lst))
             n == IF c.t = "dict" THEN Get(c.v, "contributions", I(0)) ELSE NoneV
         IN  IF rest < 0 \/ n.t # "int" THEN 0 - 1 ELSE n.v + rest

\* github.py:58-67: the contributors
ContributorsStep(d, resp) ==
    IF resp.kind \in { "none", "not_ok" } THEN Done(d)
    ELSE IF resp.kind = "bad_json" THEN Raised
    ELSE IF resp.body.t # "list" \/ Len(resp.body.v) = 0 THEN Done(d)
    ELSE LET lst == resp.body.v
             total == Contributions(lst)
             top == IF total > 0
                    THEN Get(lst[1].v, "contributions", I(0)).v ELSE 0
         IN  IF total < 0 THEN Raised
             ELSE Done(Put(d, "contributors",
                    [ contributors_count |-> Len(lst),
                      top_contributor_pct |->
                          IF total > 0 THEN (100 * top) \div total ELSE 100,
                      total_contributions |-> total ]))

\* the paths of the blobs up to the first entry that raises
RECURSIVE BlobPathsSoFar(_)
BlobPathsSoFar(tree) ==
    IF Len(tree) = 0 THEN << >>
    ELSE LET it == tree[1]
         IN  IF it.t # "dict" THEN << >>
             ELSE IF Get(it.v, "type", NoneV) # Str("blob")
                  THEN BlobPathsSoFar(Tail(tree))
             ELSE IF "path" \notin DOMAIN it.v THEN << >>
             ELSE << it.v.path.v >> \o BlobPathsSoFar(Tail(tree))

\* the paths of the blobs of a tree; << "raise" >> stands for the exception
\* of it["path"] on a blob without path or of it.get on an entry that is no
\* dict
RECURSIVE BlobPaths(_)
BlobPaths(tree) ==
    IF Len(tree) = 0 THEN << >>
    ELSE LET it == tree[1]
             rest == BlobPaths(Tail(tree))
         IN  IF rest = << "raise" >> \/ it.t # "dict" THEN << "raise" >>
             ELSE IF Get(it.v, "type", NoneV) # Str("blob") THEN rest
             ELSE IF "path" \notin DOMAIN it.v THEN << "raise" >>
             ELSE << it.v.path.v >> \o rest

\* github.py:78-82: the file listing of a branch whose response is ok
TreeStep(d, resp) ==
    IF resp.kind = "bad_json" \/ resp.body.t # "dict" THEN Raised
    ELSE LET tree == Get(resp.body.v, "tree", [ t |-> "list", v |-> << >> ])
         IN  IF tree.t # "list" \/ BlobPaths(tree.v) = << "raise" >> THEN Raised
             ELSE Done(Put(d, "files", BlobPaths(tree.v)))

\* what get_pr_review_stats hands back: its six counters
PrStatsResults ==
    { StatsInit,
      [ StatsInit EXCEPT !.total_prs = 2, !.reviewed_prs = 1,
                         !.total_lines_added = 3,
                         !.lines_from_reviewed_prs = 1 ] }

\* the branches tried with master before main
BranchesMasterFirst == << "master", "main" >>

\* github.py:73: the branches tried for the file listing
Branches == << "main", "master" >>

\* github.py:83-86: the except clause logs, and data is returned as it is
RepoReturn(d) ==
    /\ rout' = d
    /\ rpc' = "returned"

\* github.py:16-40: extract_repo_info gives owner and repo, or nothing
RepoCall ==
    /\ rpc = "idle"
    /\ \E found \in BOOLEAN :
         /\ rseen' = [ rseen EXCEPT !.extracted = found ]
         /\ IF found
            THEN /\ rdata' = GithubDefault
                 /\ rpc' = "repo"
                 /\ UNCHANGED rout
            ELSE /\ RepoReturn(EmptyDict)
                 /\ UNCHANGED rdata
    /\ UNCHANGED notRepo

\* one step of the try block on the response served, the except clause
\* when it raises
RepoAdvance(step, resp, next) ==
    /\ rseen' = [ rseen EXCEPT !.calls = Append(@, resp),
                               !.raised = step.raised ]
    /\ IF step.raised
       THEN /\ RepoReturn(rdata)
            /\ UNCHANGED rdata
       ELSE /\ rdata' = step.data
            /\ rpc' = next
            /\ UNCHANGED rout

\* github.py:43-53
RepoFetch ==
    /\ rpc = "repo"
    /\ \E resp \in UpstreamOf(RepoBodies) :
         RepoAdvance(RepoStep(rdata, resp), resp, "contributors")
    /\ UNCHANGED notRepo

\* github.py:55-67
RepoContributors ==
    /\ rpc = "contributors"
    /\ \E resp \in UpstreamOf(ContributorBodies) :
         RepoAdvance(ContributorsStep(rdata, resp), resp, "prs")
    /\ UNCHANGED notRepo

\* github.py:69-70
RepoPrStats ==
    /\ rpc = "prs"
    /\ \E pr_stats \in PrStatsResults :
         /\ rdata' = Put(rdata, "pr_review_stats", pr_stats)
         /\ rseen' = [ rseen EXCEPT !.calls = Append(@, [ kind |-> "prs",
                                                          body |-> NoneV ]) ]
    /\ rpc' = "tree"
    /\ UNCHANGED rout
    /\ UNCHANGED notRepo

\* github.py:73-86: the request for the next branch; a listing that is ok
\* ends the loop, as does the second branch; then data is returned.  The
\* history keeps the branch the request named.
RepoTree ==
    /\ rpc = "tree"
    /\ \E resp \in UpstreamOf(TreeBodies) :
         LET branch == Branches[Len(rseen.calls) - 2]
             last == Len(rseen.calls) + 1 = 3 + Len(Branches)
                     \/ resp.kind = "ok"
             step == IF resp.kind \in { "none", "not_ok" } THEN Done(rdata)
                     ELSE TreeStep(rdata, resp)
         IN  /\ rseen' = [ rseen EXCEPT
                             !.calls = Append(@, [ kind |-> resp.kind,
                                                   body |-> resp.body,
                                                   branch |-> branch ]),
                             !.raised = step.raised ]
             /\ IF step.raised
                THEN RepoReturn(rdata) /\ UNCHANGED rdata
                ELSE IF last
                THEN RepoReturn(step.data) /\ rdata' = step.data
                ELSE rpc' = "tree" /\ UNCHANGED << rdata, rout >>
    /\ UNCHANGED notRepo

NextRepo == RepoCall \/ RepoFetch \/ RepoContributors \/ RepoPrStats \/ RepoTree

SpecRepo == Init /\ [][NextRepo]_vars

\* the counters of reviewed work lie within those of all work
WithinTotals(st, processed) ==
    /\ 0 <= st.reviewed_prs /\ st.reviewed_prs <= processed
    /\ 0 <= st.lines_from_reviewed_prs
    /\ st.lines_from_reviewed_prs <= st.total_lines_added

\* C26: at every step of a fetch whose items have non-negative additions,
\* 0 <= reviewed_prs <= items processed and 0 <= lines_from_reviewed_prs <=
\* total_lines_added; consequently the reviewedness metric computed on any
\* output of the fetcher (complete, partial or aborted) is either -1 or a
\* value in [0,1].
C26_ReviewedWithinTotals ==
    /\ WithinTotals(prstats, prs_processed)
    /\ result # NoResult => WithinTotals(result, prs_processed)
    /\ pc = "scored" /\ result # NoResult =>
         \/ metric.value = Sentinel
         \/ /\ metric.value.den > 0
            /\ 0 <= metric.value.num /\ metric.value.num <= metric.value.den

\* a fetch cut short on its second page, with reviewed and unreviewed items
\* counted, was scored strictly between 0 and 1
C26_Witness ==
    /\ pc = "scored" /\ result # NoResult
    /\ ctl = "break" /\ Len(reqCursors) = 2
    /\ 0 < result.reviewed_prs /\ result.reviewed_prs < prs_processed
    /\ 0 < metric.value.num /\ metric.value.num < metric.value.den

\* C27, as stated: the hard safety ceiling bounds the work of one fetch:
\* whenever every page holds at most 100 items (PageMax here), the number
\* of PR items counted into the returned statistics never exceeds the
\* ceiling of 6000 (max_prs here).
C27_CountedWithinCeiling == prs_processed <= max_prs

\* C27, amended: a page is requested only while fewer items than the
\* ceiling have been counted, so the number of items counted never exceeds
\* the ceiling plus one page less one item.
C27_CountedWithinCeilingPlusPage ==
    /\ pc = "loop" => prs_processed < max_prs
    /\ prs_processed <= max_prs + PageMax - 1

\* two pages of one item each, both with a next page, then a full page:
\* the fetch returned with one item more than the ceiling counted
C27_Witness ==
    /\ Returned /\ Len(reqCursors) = 3
    /\ ctl = "next" /\ has_next_page
    /\ prs_processed = max_prs + PageMax - 1
    /\ result.total_lines_added > 0

(***************************************************************************)
(* Properties of the aggregator, checked under SpecAgg.                    *)
(***************************************************************************)
AggReturned == apc = "returned"

AggRaised == agg.raisedAt # "none"

\* C11: fetch_comprehensive_metrics_data never raises: whichever helper call
\* throws, at whatever step, the call returns, and what it returns is the one
\* hard-coded neutral-default context, with nothing in it of the results
\* gathered before the failure.
C11_RaiseGivesNeutralDefault ==
    /\ AggRaised => AggReturned /\ ctxout = NeutralDefault
    /\ AggReturned => ctxout # NoResult

\* a helper raised after fetched results had been put into data, among them a
\* license the neutral-default context does not show
C11_Witness ==
    /\ AggReturned /\ AggRaised /\ agg.gathered
    /\ Truthy(data.license) /\ ctxout.license = ""

\* the fields the aggregator documents, all present
StructurallyComplete(c) ==
    /\ { "availability", "license", "repo_meta", "code_quality",
         "dataset_quality", "ramp", "size_components", "requirements_passed",
         "requirements_total", "availability_latency", "hf_model_latency",
         "hf_dataset_latency", "github_latency" } \subseteq DOMAIN c
    /\ { "contributors_count", "top_contributor_pct" } \subseteq DOMAIN c.repo_meta
    /\ { "downloads_norm", "likes_norm", "recency_norm" } \subseteq DOMAIN c.ramp

\* every connector was called and either raised or handed back the empty
\* record
AllUpstreamFailed ==
    /\ WantsModel(urls) /\ WantsDataset(urls) /\ WantsCode(urls)
    /\ \/ AggRaised
       \/ agg.empty = { "model", "dataset", "code" }

\* C12: for every combination of upstream failures (each connector raising
\* or returning an empty record) the returned context is structurally
\* complete: availability, license, repo_meta with contributors_count and
\* top_contributor_pct, code_quality, dataset_quality, ramp with its three
\* norms, size_components, requirements_passed/total and the per-source
\* latency fields are all present.
C12_CompleteUnderFailures ==
    AggReturned /\ AllUpstreamFailed => StructurallyComplete(ctxout)

\* the call returned without a helper having raised
AggAssembled == AggReturned /\ ~ AggRaised

\* the original C13: the license of the returned context is the hub's when
\* the hub record carries one, else the repository's when that carries one,
\* and no license only when neither does - in every returned context
C13_LicensePrecedence ==
    AggReturned =>
        /\ Truthy(agg.hub) => ctxout.license = agg.hub
        /\ ~ Truthy(agg.hub) /\ Truthy(agg.repo) => ctxout.license = agg.repo
        /\ ~ Truthy(ctxout.license) => ~ Truthy(agg.hub) /\ ~ Truthy(agg.repo)

\* C13 (amended): in a context assembled without a helper raising, the
\* license is the hub's when the hub record carries one, the repository's
\* only when the hub fetch yielded none, and absent only when neither source
\* supplied one; when a helper raised, the license is the empty string of
\* the neutral-default context whatever the sources supplied.
C13_LicensePrecedenceAssembled ==
    /\ AggAssembled =>
        /\ Truthy(agg.hub) => ctxout.license = agg.hub
        /\ ~ Truthy(agg.hub) /\ Truthy(agg.repo) => ctxout.license = agg.repo
        /\ ~ Truthy(ctxout.license) => ~ Truthy(agg.hub) /\ ~ Truthy(agg.repo)
    /\ AggReturned /\ AggRaised => ctxout.license = ""

\* both sources carried a license, different ones, and the context was
\* assembled
C13_Witness ==
    /\ AggAssembled
    /\ Truthy(agg.hub) /\ Truthy(agg.repo) /\ agg.hub # agg.repo

(***************************************************************************)
(* Properties of the scoring, checked under SpecScore.                     *)
(***************************************************************************)
Scored == spc \in { "ran", "aggregated" }

\* every value is the -1 sentinel or lies in [0,1]
ValidResults == \A id \in DOMAIN results : results[id] = Sentinel \/ InUnit(results[id])

\* the sum of the weights of the rules whose metric has the given property
RECURSIVE WeightOf(_, _)
WeightOf(P(_), n) ==
    IF n = 0 THEN 0
    ELSE WeightOf(P, n - 1)
         + IF P(default_ops[n].metric_id) THEN default_ops[n].weight ELSE 0

IsSentinel(id) == results[id] = Sentinel
IsAny(id) == TRUE

\* C14: for every set of metric results whose values are each -1 or in
\* [0,1], aggregation over the default plan yields a weighted net score in
\* [0,1] and a binary in {0,1}, with binary = 1 if and only if the weighted
\* score is at least the threshold 0.5.
C14_NetScoreBounded ==
    Scored /\ ValidResults =>
        /\ InUnit(summary.weighted)
        /\ summary.binary \in { 0, 1 }
        /\ summary.binary = 1 <=> RatLe(Half, summary.weighted)

\* results with a sentinel among positive values whose net score is exactly
\* the threshold
C14_Witness ==
    /\ Scored /\ ValidResults
    /\ \E id \in DOMAIN results : results[id] = Sentinel
    /\ summary.weighted = Half /\ summary.binary = 1

\* C15: a metric whose value is the -1 sentinel contributes exactly 0 and
\* its weight is not redistributed: the net score is at most 1 minus the
\* weights of the sentinel-valued rules, and is exactly that when every
\* other value is 1.0; with reviewedness = -1 and every other metric at 1.0
\* the net score is 0.93.
C15_SentinelDropsWeight ==
    Scored /\ ValidResults =>
        LET rest == [ num |-> 100 - WeightOf(IsSentinel, Len(default_ops)),
                      den |-> 100 ]
        IN  /\ RatLe(summary.weighted, rest)
            /\ (\A id \in DOMAIN results : results[id] \in { Sentinel, One })
                 => summary.weighted = Reduce(rest)
            /\ ( /\ results["reviewedness"] = Sentinel
                 /\ \A id \in DOMAIN results \ { "reviewedness" } :
                        results[id] = One )
                 => summary.weighted = [ num |-> 93, den |-> 100 ]

\* reviewedness at -1, every other metric at 1.0
C15_Witness ==
    /\ spc = "aggregated"
    /\ results["reviewedness"] = Sentinel
    /\ \A id \in DOMAIN results \ { "reviewedness" } : results[id] = One
    /\ summary.weighted = [ num |-> 93, den |-> 100 ]

C17_ResultsInUnit ==
    spc = "ran" => \A id \in DOMAIN results : InUnit(results[id])

(***************************************************************************)
(* Properties of the command line, checked under SpecCli.                  *)
(***************************************************************************)
\* the record has a net_score that is a float in [0,1]
NetScoreInUnit(record) ==
    "net_score" \in DOMAIN record /\ UnitFloat(record.net_score)

\* an independent reading of a valid record: every field present, names
\* strings or None, every score (or every value of a score dict) None, -1 or
\* a float in [0,1], every latency None or a non-negative int
Acceptable(record) ==
    /\ \A f \in score_fields :
         /\ f \in DOMAIN record
         /\ LET x == record[f]
                ok(y) == \/ y.t = "none"
                         \/ y \in { F(0 - 100), I(0 - 1) }
                         \/ (y.t = "float" /\ y.v \in 0..100)
            IN  IF x.t = "dict" THEN \A k \in DOMAIN x.v : ok(x.v[k]) ELSE ok(x)
    /\ \A f \in latency_fields :
         f \in DOMAIN record /\ (record[f].t = "none"
                                 \/ (record[f].t = "int" /\ record[f].v >= 0))
    /\ \A f \in string_fields :
         f \in DOMAIN record /\ record[f].t \in { "str", "none" }

\* C18: in the output loop every evaluated record produces exactly one
\* output line, in input order: the record itself if it is valid, otherwise
\* {name, error: "Invalid record"}; an invalid record never suppresses or
\* aborts the output of the records after it, and the run returns 0.
C18_OneLinePerRecord ==
    /\ cpc \in { "loop", "returned" } =>
         /\ Len(printed) <= Len(ndjsons)
         /\ \A i \in 1..Len(printed) :
              printed[i] = IF Acceptable(ndjsons[i]) THEN ndjsons[i]
                           ELSE [ name |-> IF "name" \in DOMAIN ndjsons[i]
                                           THEN ndjsons[i].name
                                           ELSE Str("unknown"),
                                  error |-> Str("Invalid record") ]
    /\ cpc = "returned" => rc = 0 /\ Len(printed) = Len(ndjsons)

\* a run that returned after an invalid record followed by a valid one, both
\* with their line
C18_Witness ==
    /\ cpc = "returned" /\ rc = 0 /\ Len(ndjsons) = 2
    /\ ~ verdicts[1] /\ verdicts[2]
    /\ "error" \in DOMAIN printed[1] /\ printed[2] = ndjsons[2]

Answered(i) == Len(rseen.calls) >= i /\ rseen.calls[i].kind = "ok"

\* an entry of a list that makes the code raise: no dict, contributions
\* null, a blob without path
BadContributor(c) ==
    c.t # "dict" \/ Get(c.v, "contributions", I(0)).t # "int"
BadTreeEntry(it) ==
    it.t # "dict"
    \/ (Get(it.v, "type", NoneV) = Str("blob") /\ "path" \notin DOMAIN it.v)

\* the repository metadata was not obtained: no answer, or a body that is
\* no object or whose license is no object
RepoNotObtained ==
    ~ Answered(1)
    \/ LET b == rseen.calls[1].body
       IN  b.t # "dict" \/ Get(b.v, "license", NoneV).t \notin { "none", "dict" }

\* the contributors were not obtained: the call was not made or not
\* answered, or its body is no list, an empty one, or one with a bad entry
ContributorsNotObtained ==
    ~ Answered(2)
    \/ LET b == rseen.calls[2].body
       IN  b.t # "list" \/ Len(b.v) = 0
           \/ \E i \in 1..Len(b.v) : BadContributor(b.v[i])

\* the statistics were not obtained: get_pr_review_stats was not called
PrStatsNotObtained == Len(rseen.calls) < 3

\* the file listing was not obtained: no branch was answered by an object
\* whose tree is a list without bad entry
FilesNotObtained ==
    \A i \in 4..Len(rseen.calls) :
        \/ ~ Answered(i)
        \/ LET b == rseen.calls[i].body
           IN  \/ b.t # "dict"
               \/ "tree" \in DOMAIN b.v
                    /\ ( b.v.tree.t # "list"
                         \/ \E j \in 1..Len(b.v.tree.v) :
                                BadTreeEntry(b.v.tree.v[j]) )

\* C20: get_github_repo_data never lets an exception escape: it returns the
\* empty record when no owner/repo can be extracted from the URL, and for
\* every combination of failing upstream calls (no response, non-2xx,
\* malformed JSON, malformed tree entries) it returns a record whose fields
\* not obtained keep their defaults (zero counters, empty file list, null
\* license).
C20_DefaultsKept ==
    /\ rseen.raised => rpc = "returned"
    /\ rpc = "returned" =>
         IF ~ rseen.extracted THEN rout = EmptyDict
         ELSE /\ DOMAIN rout = DOMAIN GithubDefault
              /\ RepoNotObtained =>
                   /\ rout.stars = 0 /\ rout.forks = 0 /\ rout.license = None
                   /\ rout.created_at = None /\ rout.updated_at = None
              /\ ContributorsNotObtained => rout.contributors = EmptyDict
              /\ PrStatsNotObtained => rout.pr_review_stats = StatsInit
              /\ FilesNotObtained => rout.files = << >>

\* the metadata and the contributors were obtained, then the listing of
\* main was refused and that of master had a blob without path: the record
\* returned has the former and an empty file list
C20_Witness ==
    /\ rpc = "returned" /\ rseen.raised /\ Len(rseen.calls) = 5
    /\ ~ RepoNotObtained /\ rout.stars = 10 /\ rout.license = "MIT"
    /\ ~ ContributorsNotObtained /\ rout.contributors.contributors_count = 2
    /\ rseen.calls[4].kind = "not_ok"
    /\ FilesNotObtained /\ rout.files = << >>

\* the requests for a file listing among the upstream calls, and a request
\* that failed: no response, or one that is not ok
TreeCalls == { i \in 1..Len(rseen.calls) : "branch" \in DOMAIN rseen.calls[i] }
TreeFailed(c) == c.kind \in { "none", "not_ok" }

\* the file list a listing holds
FilesOf(body) == BlobPaths(Get(body.v, "tree", [ t |-> "list", v |-> << >> ]).v)

\* C21: the repository connector requests the file tree of branch "main"
\* first and requests "master" only after the "main" request failed; when
\* "main" succeeds no "master" request is made and the file list comes from
\* "main" (it stays empty when reading the listing raises); both tree
\* requests happen only after the PR review statistics have been fetched.
C21_MainBeforeMaster ==
    /\ \A i \in TreeCalls :
         LET c == rseen.calls[i]
         IN  /\ \E j \in 1..(i - 1) : rseen.calls[j].kind = "prs"
             /\ c.branch = "main" => \A j \in TreeCalls : j >= i
             /\ c.branch = "master" =>
                  /\ i - 1 \in TreeCalls
                  /\ rseen.calls[i - 1].branch = "main"
                  /\ TreeFailed(rseen.calls[i - 1])
             /\ c.branch = "main" /\ ~ TreeFailed(c) =>
                  /\ \A j \in TreeCalls : rseen.calls[j].branch # "master"
                  /\ rpc = "returned"
                  /\ rout.files = IF rseen.raised THEN << >>
                                  ELSE FilesOf(c.body)
    /\ rpc = "tree" => "pr_review_stats" \in DOMAIN rdata

\* the listing of main was refused, that of master was read
C21_Witness ==
    /\ rpc = "returned" /\ Len(rseen.calls) = 5
    /\ rseen.calls[3].kind = "prs"
    /\ rseen.calls[4].branch = "main" /\ rseen.calls[4].kind = "not_ok"
    /\ rseen.calls[5].branch = "master" /\ rseen.calls[5].kind = "ok"
    /\ rout.files = << "a.py" >>

(***************************************************************************)
(* The registry API, api/app.py.  A handler is a function of the registry  *)
(* and the request; it gives the status, the body answered and the         *)
(* registry it leaves.  authenticate and getPermissionLevel read the       *)
(* request's token: their results are inputs of the request.               *)
(***************************************************************************)
\* the URLs sent to ArtifactCreate: two of the same model name, one that is
\* no hub URL
ValidUrls ==
    { "https://huggingface.co/openai/whisper-tiny",
      "https://huggingface.co/openai/whisper-tiny/tree/main" }
Urls == ValidUrls \cup { "not-a-valid-huggingface-url" }

\* the URL an update puts in place
UpdatedUrl == "https://huggingface.co/openai/whisper-tiny/tree/v2"

\* a URL cut at "://" and at every "/": the scheme, the host, the segments
\* of the path
Segments(url) ==
    CASE url = "https://huggingface.co/openai/whisper-tiny" ->
           << "https", "huggingface.co", "openai", "whisper-tiny" >>
      [] url = "https://huggingface.co/openai/whisper-tiny/tree/main" ->
           << "https", "huggingface.co", "openai", "whisper-tiny", "tree",
              "main" >>
      [] url = UpdatedUrl ->
           << "https", "huggingface.co", "openai", "whisper-tiny", "tree",
              "v2" >>
      [] OTHER -> << url >>

\* classes.py:14: re.match(r"https?://huggingface\.co/([^/]+)/([^/]+)", url)
hf_match(url) ==
    LET p == Segments(url)
    IN  /\ Len(p) >= 4
        /\ p[1] \in { "http", "https" }
        /\ p[2] = "huggingface.co"
        /\ p[3] # "" /\ p[4] # ""

\* classes.py:19: str(hash(self.url) + sys.maxsize + 1), a string of digits;
\* the hashes of the URLs sent differ
HashId(url) ==
    CASE url = "https://huggingface.co/openai/whisper-tiny" -> "11"
      [] url = "https://huggingface.co/openai/whisper-tiny/tree/main" -> "12"
      [] OTHER -> "13"

\* classes.py:10-20: Model(url); raised when url is None (re.match on None)
\* or is no hub URL (ValueError)
Model(url) ==
    IF url = None \/ ~ hf_match(url) THEN [ raised |-> TRUE ]
    ELSE LET name == Segments(url)[4]
             id == HashId(url)
         IN  [ raised |-> FALSE,
               url |-> url, type |-> "model", name |-> name, id |-> id,
               metadata |-> [ name |-> name, id |-> id, type |-> "model" ] ]

\* the artifact left of a Model that did not raise
Artifact(m) ==
    [ url |-> m.url, type |-> m.type, name |-> m.name, id |-> m.id,
      metadata |-> m.metadata ]

\* the registry: id in model_registry, model_registry[id],
\* model_registry[id] = v (a key already there keeps its place)
Keys(reg) == { reg[i].key : i \in DOMAIN reg }
At(reg, k) == reg[CHOOSE i \in DOMAIN reg : reg[i].key = k].value
Store(reg, k, v) ==
    IF k \in Keys(reg)
    THEN [ i \in DOMAIN reg |->
             IF reg[i].key = k THEN [ key |-> k, value |-> v ] ELSE reg[i] ]
    ELSE Append(reg, [ key |-> k, value |-> v ])

\* the path parameters: the three types of app.py:65 and one that is none
\* of them; the ids created, one never created, one that is no number
ArtifactTypes == { "model", "dataset", "code" }
PathIds == { "11", "12", "999999999", "not-a-number" }
Paths ==
    { << "model", id >> : id \in PathIds }
    \cup { << "dataset", "11" >>, << "invalid_type", "11" >>,
           << "invalid_type", "not-a-number" >> }
isdigit(id) == id # "not-a-number"

\* the bodies of the requests
ListBodies ==
    { [ name |-> "*", types |-> T ] : T \in { {"model"}, {"dataset"},
                                              {"model", "dataset"} } }
    \cup { [ name |-> "*" ], [ types |-> {"model"} ] }
CreateBodies == { [ url |-> u ] : u \in Urls } \cup { EmptyDict }
MetadataBodies ==
    { [ custom_field |-> "updated_value" ],
      [ name |-> "renamed", id |-> "999999999", type |-> "dataset" ] }
UpdateBodies ==
    { [ metadata |-> m, data |-> [ url |-> UpdatedUrl ] ] : m \in MetadataBodies }
    \cup { [ metadata |-> m ] : m \in MetadataBodies }
    \cup { [ data |-> [ url |-> UpdatedUrl ] ], EmptyDict }

\* jsonify({'description': ...}), status
Answer(status, out, reg) == [ status |-> status, out |-> out, reg |-> reg ]
Description(text) == [ description |-> text ]
AuthFailed(reg) ==
    Answer(403, Description("Authentication failed due to invalid or missing AuthenticationToken."), reg)
BadPath(reg) ==
    Answer(400, Description("There is missing field(s) in the artifact_type or artifact_id or it is formed improperly, or is invalid."), reg)
NotFound(reg) == Answer(404, Description("Artifact does not exist."), reg)

\* app.py:13-40: ArtifactsList; res is keyed by the name of the model
ArtifactsList(reg, req) ==
    IF ~ req.auth THEN AuthFailed(reg)
    ELSE IF "name" \notin DOMAIN req.body \/ "types" \notin DOMAIN req.body
    THEN Answer(400, Description("There is missing field(s) in the artifact_query or it is formed improperly, or is invalid."), reg)
    ELSE LET types == req.body.types
             hits == { i \in DOMAIN reg : reg[i].value.type \in types }
             names == { reg[i].value.name : i \in hits }
             last(n) == CHOOSE i \in hits :
                          /\ reg[i].value.name = n
                          /\ \A j \in hits : reg[j].value.name = n => j <= i
         IN  Answer(200, [ n \in names |-> reg[last(n)].value.metadata ], reg)

\* RegistryReset without the test of the permission level
RegistryResetAnyone(reg, req) ==
    IF ~ req.auth THEN AuthFailed(reg)
    ELSE Answer(200, Description("Registry is reset."), << >>)

\* app.py:43-55: RegistryReset
RegistryReset(reg, req) ==
    IF ~ req.auth THEN AuthFailed(reg)
    ELSE IF req.perm # "admin"
    THEN Answer(401, Description("You do not have permission to reset the registry."), reg)
    ELSE Answer(200, Description("Registry is reset."), << >>)

\* ArtifactRetrieve with the test of the path before the authentication
ArtifactRetrievePathFirst(reg, req) ==
    IF req.artifact_type \notin ArtifactTypes \/ ~ isdigit(req.id)
    THEN BadPath(reg)
    ELSE IF ~ req.auth THEN AuthFailed(reg)
    ELSE IF req.id \notin Keys(reg) THEN NotFound(reg)
    ELSE LET model == At(reg, req.id)
         IN  IF model.type = req.artifact_type /\ model.id = req.id
             THEN Answer(200, model.metadata, reg)
             ELSE NotFound(reg)

\* app.py:58-80: ArtifactRetrieve
ArtifactRetrieve(reg, req) ==
    IF ~ req.auth THEN AuthFailed(reg)
    ELSE IF req.artifact_type \notin ArtifactTypes \/ ~ isdigit(req.id)
    THEN BadPath(reg)
    ELSE IF req.id \notin Keys(reg) THEN NotFound(reg)
    ELSE LET model == At(reg, req.id)
         IN  IF model.type = req.artifact_type /\ model.id = req.id
             THEN Answer(200, model.metadata, reg)
             ELSE NotFound(reg)

\* app.py:100: model_registry[id].metadata.update(metadata)
WithMetadata(model, metadata) ==
    [ model EXCEPT !.metadata = Update(model.metadata, metadata) ]

\* app.py:83-107: ArtifactUpdate.  A missing "metadata" makes
\* metadata.update(None) raise before anything is written; a missing "data"
\* makes upd_data.get raise after the metadata was written; a key that is
\* not in the registry makes model_registry[id] raise.  The except clause
\* passes on to the 404 answer.
ArtifactUpdate(reg, req) ==
    IF ~ req.auth THEN AuthFailed(reg)
    ELSE IF req.artifact_type \notin ArtifactTypes \/ ~ isdigit(req.id)
    THEN BadPath(reg)
    ELSE IF req.id \notin Keys(reg) THEN NotFound(reg)
    ELSE LET model == At(reg, req.id)
         IN  IF ~ (model.type = req.artifact_type /\ model.id = req.id)
             THEN NotFound(reg)
             ELSE IF "metadata" \notin DOMAIN req.body THEN NotFound(reg)
             ELSE LET written == WithMetadata(model, req.body.metadata)
                  IN  IF "data" \notin DOMAIN req.body
                      THEN NotFound(Store(reg, req.id, written))
                      ELSE Answer(200, Description("Artifact is updated."),
                                  Store(reg, req.id,
                                        [ written EXCEPT !.url =
                                            Get(req.body.data, "url", None) ]))

\* app.py:116-131: ArtifactCreate; authenticate is not called and
\* artifact_type is not read
ArtifactCreate(reg, req) ==
    LET newModel == Model(Get(req.body, "url", None))
    IN  IF newModel.raised
        THEN Answer(400, Description("There is missing field(s) in the artifact_data or it is formed improperly (must include a single url)"), reg)
        ELSE Answer(201, newModel.metadata,
                    Store(reg, newModel.id, Artifact(newModel)))

\* app.py:110-113, 135-180: the handlers that are not implemented
NotImplemented(reg, req) == Answer(501, [ message |-> "Not implemented" ], reg)

\* a request and the answer of its handler
Request(op, auth, perm, artifact_type, id, body) ==
    [ op |-> op, auth |-> auth, perm |-> perm,
      artifact_type |-> artifact_type, id |-> id, body |-> body ]

Serve(req, ans) ==
    /\ model_registry' = ans.reg
    /\ api' = [ op |-> req.op, auth |-> req.auth, perm |-> req.perm,
                artifact_type |-> req.artifact_type, id |-> req.id,
                body |-> req.body, status |-> ans.status, out |-> ans.out,
                before |-> model_registry ]
    /\ created' = IF req.op = "create" /\ ans.status = 201
                  THEN Put(created, ans.out.id, ans.out)
                  ELSE IF req.op = "reset" /\ ans.status = 200 THEN EmptyDict
                  ELSE created

PostArtifacts ==
    /\ \E auth \in BOOLEAN, body \in ListBodies :
             LET req == Request("list", auth, "user", "", "", body)
             IN  Serve(req, ArtifactsList(model_registry, req))
    /\ UNCHANGED notApi

DeleteReset ==
    /\ \E auth \in BOOLEAN, perm \in { "admin", "user" } :
             LET req == Request("reset", auth, perm, "", "", EmptyDict)
             IN  Serve(req, RegistryReset(model_registry, req))
    /\ UNCHANGED notApi

GetArtifact ==
    /\ \E auth \in BOOLEAN, path \in Paths :
             LET req == Request("retrieve", auth, "user", path[1], path[2], EmptyDict)
             IN  Serve(req, ArtifactRetrieve(model_registry, req))
    /\ UNCHANGED notApi

PutArtifact ==
    /\ \E auth \in BOOLEAN, path \in Paths, body \in UpdateBodies :
             LET req == Request("update", auth, "user", path[1], path[2], body)
             IN  Serve(req, ArtifactUpdate(model_registry, req))
    /\ UNCHANGED notApi

PostArtifact ==
    /\ \E auth \in BOOLEAN, t \in { "model", "dataset" }, body \in CreateBodies :
             LET req == Request("create", auth, "user", t, "", body)
             IN  Serve(req, ArtifactCreate(model_registry, req))
    /\ UNCHANGED notApi

DeleteArtifact ==
    /\ \E auth \in BOOLEAN :
             LET req == Request("delete", auth, "user", "model", "11", EmptyDict)
             IN  Serve(req, NotImplemented(model_registry, req))
    /\ UNCHANGED notApi

NextApi ==
    \/ PostArtifacts
    \/ DeleteReset
    \/ GetArtifact
    \/ PutArtifact
    \/ PostArtifact
    \/ DeleteArtifact

SpecApi == Init /\ [][NextApi]_vars

(***************************************************************************)
(* Properties of the registry API, checked under SpecApi.                  *)
(***************************************************************************)
\* the last request left the registry as it was
RegistryUnchanged == model_registry = api.before

\* C22: for the list, reset, retrieve and update endpoints, a request that
\* fails authentication always gets status 403, whatever its path
\* parameters and body, and leaves the registry unchanged; the
\* authentication check takes precedence over the 400/401/404 checks.
C22_AuthFailureIs403 ==
    api.op \in { "list", "reset", "retrieve", "update" } /\ ~ api.auth =>
        api.status = 403 /\ RegistryUnchanged

\* an update without authentication whose path is malformed and whose body
\* is empty, on a registry that holds artifacts
C22_Witness ==
    /\ api.op = "update" /\ ~ api.auth
    /\ api.artifact_type = "invalid_type" /\ api.id = "not-a-number"
    /\ api.body = EmptyDict
    /\ Len(api.before) = 2
    /\ api.status = 403 /\ RegistryUnchanged

\* C23: DELETE /reset by an authenticated admin returns 200 and leaves the
\* registry empty regardless of its prior contents; by an authenticated
\* non-admin it returns 401 and leaves the registry unchanged.
C23_ResetByAdminOnly ==
    api.op = "reset" /\ api.auth =>
        IF api.perm = "admin"
        THEN api.status = 200 /\ model_registry = << >>
        ELSE api.status = 401 /\ RegistryUnchanged

\* an admin resets a registry of two artifacts
C23_Witness ==
    /\ api.op = "reset" /\ api.auth /\ api.perm = "admin"
    /\ Len(api.before) = 2
    /\ api.status = 200 /\ model_registry = << >>

\* C24: after POST /artifact/model returned 201 with id i for a valid model
\* URL, every later authenticated GET /artifacts/model/i (with no reset in
\* between) returns 200 with the same name, id and type that create
\* returned, while GET with any other artifact type for the same id returns
\* 404.
C24_RetrieveReturnsCreated ==
    api.op = "retrieve" /\ api.auth /\ api.id \in DOMAIN created =>
        IF api.artifact_type = "model"
        THEN /\ api.status = 200
             /\ api.out.name = created[api.id].name
             /\ api.out.id = created[api.id].id
             /\ api.out.type = created[api.id].type
        ELSE api.artifact_type \in ArtifactTypes => api.status = 404

\* the entries of a registry whose artifact has one of the types
OfTypes(reg, types) == { i \in DOMAIN reg : reg[i].value.type \in types }

\* C25: an authenticated POST /artifacts with types T returns 200 and
\* exactly one entry per registered artifact whose type is in T, so the
\* number of entries returned equals the number of such artifacts in the
\* registry, also when several registered artifacts share a name.
C25_OneEntryPerArtifact ==
    api.op = "list" /\ api.auth /\ { "name", "types" } \subseteq DOMAIN api.body =>
        /\ api.status = 200
        /\ Cardinality(DOMAIN api.out)
             = Cardinality(OfTypes(api.before, api.body.types))

\* C28: PUT /artifacts/<type>/<id> is all-or-nothing: whenever it answers
\* with a non-200 status (400, 403 or 404, including a request body that
\* lacks "metadata" or "data"), no artifact's metadata or url in the
\* registry has changed.
C28_UpdateAllOrNothing ==
    api.op = "update" /\ api.status # 200 => RegistryUnchanged

\* C29: after any sequence of create, update and reset requests, every
\* registry entry satisfies key = artifact.id = artifact.metadata['id'] and
\* artifact.metadata['type'] = artifact.type, so an artifact that is stored
\* under id i is always reported with id i and its own type.
C29_EntriesKeepIdAndType ==
    \A i \in DOMAIN model_registry :
        LET e == model_registry[i]
        IN  /\ e.key = e.value.id
            /\ e.value.id = e.value.metadata.id
            /\ e.value.metadata.type = e.value.type

\* C30: the registry's contents change only as the effect of a request that
\* passed authentication: a request for which authenticate() is false
\* leaves the registry exactly as it was, for every endpoint including
\* artifact creation.
C30_UnauthenticatedChangesNothing ==
    api.op # "none" /\ ~ api.auth => RegistryUnchanged

=============================================================================
